---------------------------- MODULE Spec2Model ----------------------------
(***************************************************************************)
(* A model of race_sim_3_func.py: the race() loop, the overtake() resolver,*)
(* the pit-lane phases, the kinematics helpers and the tyre model.         *)
(*                                                                         *)
(* The program computes with floats; the model holds every quantity as an  *)
(* integer in a fixed unit:                                                *)
(*   distance  mm          time      ms         speed   mm/s               *)
(*   accel     mm/s^2      tyre_deg, tyre_perf, fuel effect: 1/10000       *)
(*   cornering, drive_style: 1/1000                                        *)
(* so 0.005 s is 5, one macro-tick of 1 s is 1000, round(x, 2) of a time   *)
(* is rounding to a multiple of 10 and round(x, 1) of a distance is        *)
(* rounding to a multiple of 100.  Divisions round down.                   *)
(***************************************************************************)
EXTENDS Integers, Sequences, FiniteSets, TLC

\* the model stops starting macro-ticks at this race_time
MaxRaceTime == 95

\* time_limit = timedelta(seconds = 90)
TimeLimit == 90

\* the smallest time increment, 0.005 s
MinIncrement == 5

(***************************************************************************)
(* Arithmetic used by the helpers                                          *)
(***************************************************************************)
Min2(a, b) == IF a <= b THEN a ELSE b

Max2(a, b) == IF a >= b THEN a ELSE b

Min3(a, b, c) == Min2(a, Min2(b, c))

\* floor(a / b) for either sign of b
FloorDiv(a, b) == IF b > 0 THEN a \div b ELSE (-a) \div (-b)

\* Python's round(): to the nearest multiple of q, ties to the even multiple
RoundTo(x, q) ==
    LET d == x \div q
        r == x % q
    IN  IF 2 * r < q THEN d * q
        ELSE IF 2 * r > q THEN (d + 1) * q
        ELSE IF d % 2 = 0 THEN d * q ELSE (d + 1) * q

RECURSIVE SqrtSearch(_, _, _)
SqrtSearch(n, lo, hi) ==
    IF lo >= hi THEN lo
    ELSE LET m == (lo + hi + 1) \div 2
         IN  IF m * m <= n THEN SqrtSearch(n, m, hi) ELSE SqrtSearch(n, lo, m - 1)

\* the square root the bracketed solver converges to, rounded down
ISqrt(n) == SqrtSearch(n, 0, 46340)

(***************************************************************************)
(* Kinematics helpers                                                      *)
(***************************************************************************)
\* update_vel(current_speed, accel_brake, time_increment)
update_vel(current_speed, accel_brake, time_increment) ==
    current_speed + (accel_brake * time_increment) \div 1000

\* quad(velocity, 0, t)[0] for velocity(x) = current_speed + accel_brake * x
quad_velocity(current_speed, accel_brake, t) ==
    (current_speed * t + (((accel_brake * t) \div 1000) * t) \div 2) \div 1000

\* calc_brake_dist(current_speed, apex_speed, max_brake)
calc_brake_dist(current_speed, apex_speed, max_brake) ==
    LET t == ((current_speed - apex_speed) * 1000) \div (-max_brake)
    IN  quad_velocity(current_speed, max_brake, t)

\* calc_dist(current_speed, time_increment, accel_brake, max_speed)
calc_dist(current_speed, time_increment, accel_brake, max_speed) ==
    IF update_vel(current_speed, accel_brake, time_increment) > max_speed
    THEN LET t_a == FloorDiv((max_speed - current_speed) * 1000, accel_brake)
         IN  quad_velocity(current_speed, accel_brake, t_a)
               + (max_speed * (time_increment - t_a)) \div 1000
    ELSE quad_velocity(current_speed, accel_brake, time_increment)

\* optimize.brentq(f, 0, 1) raises when f(0) and f(1) have the same sign
SameSign(f0, f1) == (f0 > 0 /\ f1 > 0) \/ (f0 < 0 /\ f1 < 0)

\* solve_brake_time_func(vel_0, max_brake, dist_delta): the root in [0, 1] of
\* vel_0*t + (max_brake/2)*t^2 - dist_delta, or 1 when brentq raises
solve_brake_time_func(vel_0, max_brake, dist_delta) ==
    LET f0 == -dist_delta
        f1 == vel_0 + max_brake \div 2 - dist_delta
    IN  IF SameSign(f0, f1) THEN 1000
        ELSE IF f0 = 0 THEN 0
        ELSE IF f1 = 0 THEN 1000
        ELSE IF f0 > 0 THEN 1000
        ELSE ((vel_0 - ISqrt(vel_0 * vel_0 - 2 * (-max_brake) * dist_delta)) * 1000)
                 \div (-max_brake)

\* solve_accel_brake_time_func(vel_0, max_accel, max_brake, dist_delta): with
\* t_b_ratio = (-max_brake + max_accel) / -max_brake the function is
\* t_b_ratio * (vel_0*t + (max_accel/2)*t^2) - dist_delta
solve_accel_brake_time_func(vel_0, max_accel, max_brake, dist_delta) ==
    LET target == (dist_delta * (-max_brake)) \div (-max_brake + max_accel)
        f0 == -dist_delta
        f1 == vel_0 + max_accel \div 2 - target
    IN  IF SameSign(f0, f1) THEN 1000
        ELSE IF f0 = 0 THEN 0
        ELSE IF f1 = 0 THEN 1000
        ELSE IF f0 > 0 THEN 1000
        ELSE ((ISqrt(vel_0 * vel_0 + 2 * max_accel * target) - vel_0) * 1000)
                 \div max_accel

(***************************************************************************)
(* Tyre / fuel model (Car methods)                                         *)
(***************************************************************************)
\* (race_distance - self.distance) / race_distance, in 1/1000
remaining_fraction(distance, race_distance) ==
    ((race_distance - distance) * 1000) \div race_distance

\* max_fuel_effect * ((race_distance - self.distance) / race_distance), in 1/10000
fuel_term(max_fuel_effect, distance, race_distance) ==
    (max_fuel_effect * remaining_fraction(distance, race_distance)) \div 1000

\* variant: floor at 0.1 instead of 0.25
tyre_perf_low_floor(tyre_deg) ==
    IF tyre_deg >= 10000 THEN 1000
    ELSE Max2(10000 - (tyre_deg * tyre_deg) \div 10000, 1000)

\* max((1 - self.tyre_deg**2), 0.25)
tyre_perf_of(tyre_deg) ==
    IF tyre_deg >= 10000 \/ tyre_deg <= -10000 THEN 2500
    ELSE Max2(10000 - (tyre_deg * tyre_deg) \div 10000, 2500)

\* self.tyre_wear / self.max_tyre_life
tyre_deg_of(tyre_wear, max_tyre_life) ==
    (tyre_wear * 100) \div (max_tyre_life \div 100)

\* Car.calc_tyre_perf: the car record with wear, degradation and performance updated
calc_tyre_perf(car, max_tyre_life, max_fuel_effect, race_distance) ==
    LET worn == car.distance_travel + car.tyre_corner_penalty
        wear == car.tyre_wear + worn
                  + (worn * fuel_term(max_fuel_effect, car.distance, race_distance)) \div 10000
        deg  == tyre_deg_of(wear, max_tyre_life)
    IN  [car EXCEPT !.tyre_wear = wear, !.tyre_deg = deg, !.tyre_perf = tyre_perf_of(deg)]

\* Car.calc_accel and Car.calc_brake (max_value is max_accel or max_brake)
calc_accel(max_value, tyre_perf, max_fuel_effect, distance, race_distance) ==
    (((max_value * tyre_perf) \div 10000)
        * (10000 - fuel_term(max_fuel_effect, distance, race_distance))) \div 10000

\* Corner.calc_apex_speed: self.max_speed * car_tyre_perf * car_cornering
calc_apex_speed(corner_max_speed, car_tyre_perf, car_cornering) ==
    (((corner_max_speed * car_tyre_perf) \div 10000) * car_cornering) \div 1000

\* max(0, speed_delta**3 * (next_corner.end - next_corner.start))
corner_penalty(speed_delta, corner_length) ==
    IF speed_delta <= 0 THEN 0
    ELSE Max2(0, ((((speed_delta * speed_delta) \div 1000) * speed_delta) \div 1000)
                    * (corner_length \div 1000))

(***************************************************************************)
(* Input objects                                                           *)
(***************************************************************************)
\* Corner(name, start, apex, end, max_speed, overtake)
Corner(name, start, apex, end, max_speed, overtake) ==
    [name |-> name, start |-> start, apex |-> apex, end |-> end,
     max_speed |-> max_speed, overtake |-> overtake]

\* a Python list as a function on 0 .. len-1
ZeroBased(seq) == [k \in 0 .. Len(seq) - 1 |-> seq[k + 1]]

\* Track(name, lap_length, pit_length, pit_speed_limit, corner_list, lap_fuel_effect)
Track(lap_length, pit_length, pit_speed_limit, corner_list, lap_fuel_effect) ==
    [lap_length |-> lap_length, pit_length |-> pit_length,
     pit_speed_limit |-> pit_speed_limit, corner_list |-> ZeroBased(corner_list),
     lap_fuel_effect |-> lap_fuel_effect]

\* the constant attributes of Car(name, max_accel, max_brake, max_speed,
\* max_tyre_life, cornering, drive_style, pit_lap, box_time, box_location)
Driver(max_accel, max_brake, max_speed, max_tyre_life, cornering, drive_style, pit_lap, box_time) ==
    [max_accel |-> max_accel, max_brake |-> max_brake, max_speed |-> max_speed,
     max_tyre_life |-> max_tyre_life, cornering |-> cornering,
     drive_style |-> drive_style, pit_lap |-> pit_lap, box_time |-> box_time]

\* qualifying(): the car in grid position i starts at -i * grid_offset and is
\* given the pit box (i + 2) / 2 seconds down the pit lane
grid_distance(i, grid_offset) == -i * grid_offset

grid_box_location(i) == ((i + 2) * 1000) \div 2

\* the arguments of one race() call: start_grid_dict in grid order, the track,
\* race_laps, car_length_val, time_period and race_time_limit
RaceArgs(track, race_laps, car_length_val, time_period, race_time_limit, grid_offset, drivers) ==
    [track |-> track, race_laps |-> race_laps, car_length |-> car_length_val,
     time_period |-> time_period, race_time_limit |-> race_time_limit,
     grid_offset |-> grid_offset, start_grid |-> ZeroBased(drivers)]

(***************************************************************************)
(* The race() calls explored: tracks, grids (in qualifying order) and the  *)
(* remaining arguments                                                     *)
(***************************************************************************)
ShortTrack ==
    Track(150000, 4000, 8000,
     <<Corner("C1", 30000, 50000, 70000, 8000, 4000),
       Corner("Pit Entry", 120000, 130000, 140000, 8000, 0)>>,
     100)

ShortGrid ==
    <<Driver(5000, -8000, 25000, 100000000, 1000, 1000, 1, 1000),
      Driver(6000, -8000, 30000, 3000000, 900, 1100, 2, 2000)>>

ShortRace == RaceArgs(ShortTrack, 2, 5000, 1000, FALSE, 5000, ShortGrid)

LongTrack ==
    Track(200000, 6000, 10000,
     <<Corner("C1", 40000, 50000, 60000, 10000, 5000),
       Corner("C2", 110000, 120000, 130000, 12000, 3000),
       Corner("Pit Entry", 170000, 180000, 190000, 10000, 0)>>,
     100)

LongGrid ==
    <<Driver(3000, -6000, 20000, 100000000, 1100, 900, 9, 1000),
      Driver(4000, -8000, 20000, 100000000, 1000, 1000, 3, 1000)>>

LongRace == RaceArgs(LongTrack, 8, 5000, 1000, TRUE, 8000, LongGrid)

WornTrack ==
    Track(120000, 4000, 8000,
     <<Corner("C1", 30000, 50000, 70000, 30000, 2000),
       Corner("Pit Entry", 90000, 100000, 110000, 30000, 0)>>,
     100)

WornGrid ==
    <<Driver(5000, -8000, 20000, 200000, 1000, 1000, 9, 1000),
      Driver(6000, -8000, 25000, 200000, 900, 1100, 1, 2000)>>

WornRace == RaceArgs(WornTrack, 2, 3000, 1000, FALSE, 1000, WornGrid)

GridTrack ==
    Track(160000, 6000, 10000,
     <<Corner("C1", 10000, 30000, 50000, 14000, 5000),
       Corner("Pit Entry", 120000, 130000, 140000, 6000, 3000)>>,
     0)

GridGrid ==
    <<Driver(4000, -8000, 30000, 100000000, 1100, 900, 2, 1000),
      Driver(5000, -10000, 25000, 1000000, 1000, 1100, 9, 2500)>>

GridRace == RaceArgs(GridTrack, 2, 3000, 1000, FALSE, 1000, GridGrid)

LaunchTrack ==
    Track(120000, 4000, 10000,
     <<Corner("C1", 10000, 20000, 30000, 8000, 30000),
       Corner("C2", 50000, 70000, 90000, 8000, 5000),
       Corner("Pit Entry", 80000, 90000, 100000, 6000, 0)>>,
     0)

LaunchGrid ==
    <<Driver(4000, -10000, 25000, 1000000, 1100, 1000, 1, 500),
      Driver(6000, -8000, 20000, 3000000, 1000, 1100, 2, 1000)>>

LaunchRace == RaceArgs(LaunchTrack, 1, 3000, 1000, FALSE, 1000, LaunchGrid)

PackTrack ==
    Track(160000, 4000, 10000,
     <<Corner("C1", 10000, 20000, 30000, 10000, 2000),
       Corner("C2", 40000, 60000, 80000, 14000, 2000),
       Corner("Pit Entry", 120000, 130000, 140000, 10000, 0)>>,
     300)

PackGrid ==
    <<Driver(6000, -6000, 30000, 100000000, 900, 1100, 1, 1000),
      Driver(4000, -6000, 30000, 3000000, 900, 1000, 1, 2500),
      Driver(5000, -10000, 20000, 100000000, 1100, 1000, 1, 2000),
      Driver(6000, -8000, 30000, 3000000, 900, 1000, 9, 500),
      Driver(6000, -10000, 25000, 1000000, 1000, 1000, 1, 500)>>

PackRace == RaceArgs(PackTrack, 2, 5000, 1000, FALSE, 5000, PackGrid)

SprintTrack ==
    Track(200000, 3000, 8000,
     <<Corner("C1", 0, 20000, 40000, 6000, 2000),
       Corner("C2", 60000, 70000, 80000, 8000, 2000),
       Corner("Pit Entry", 170000, 180000, 190000, 6000, 0)>>,
     0)

SprintGrid ==
    <<Driver(4000, -8000, 25000, 100000000, 900, 1000, 1, 2500),
      Driver(6000, -10000, 20000, 100000000, 900, 900, 9, 2500),
      Driver(4000, -10000, 25000, 100000000, 1000, 900, 1, 2000),
      Driver(3000, -6000, 20000, 100000000, 1100, 1000, 1, 1000)>>

SprintRace == RaceArgs(SprintTrack, 1, 3000, 1000, FALSE, 5000, SprintGrid)

TrioTrack ==
    Track(160000, 3000, 8000,
     <<Corner("C1", 20000, 30000, 40000, 14000, 30000),
       Corner("C2", 50000, 60000, 70000, 10000, 0),
       Corner("Pit Entry", 130000, 140000, 150000, 8000, 0)>>,
     100)

TrioGrid ==
    <<Driver(5000, -6000, 20000, 3000000, 1000, 1100, 1, 2500),
      Driver(5000, -10000, 25000, 100000000, 900, 900, 1, 1000),
      Driver(6000, -6000, 20000, 3000000, 1000, 1000, 1, 2000)>>

TrioRace == RaceArgs(TrioTrack, 2, 3000, 1000, FALSE, 2000, TrioGrid)

DuelTrack ==
    Track(120000, 4000, 5000,
     <<Corner("C1", 0, 30000, 60000, 6000, 2000),
       Corner("Pit Entry", 90000, 100000, 110000, 10000, 0)>>,
     100)

DuelGrid ==
    <<Driver(3000, -8000, 25000, 1000000, 900, 900, 1, 2000),
      Driver(4000, -10000, 25000, 100000000, 1100, 1100, 1, 2000),
      Driver(6000, -10000, 30000, 3000000, 1000, 900, 2, 2500)>>

DuelRace == RaceArgs(DuelTrack, 2, 5000, 1000, FALSE, 1000, DuelGrid)

PitsTrack ==
    Track(160000, 4000, 10000,
     <<Corner("C1", 10000, 30000, 50000, 6000, 2000),
       Corner("C2", 50000, 60000, 70000, 6000, 30000),
       Corner("Pit Entry", 120000, 130000, 140000, 6000, 0)>>,
     100)

PitsGrid ==
    <<Driver(4000, -10000, 30000, 3000000, 900, 900, 1, 2500),
      Driver(5000, -6000, 25000, 1000000, 1100, 1100, 1, 2000),
      Driver(3000, -6000, 25000, 1000000, 1000, 900, 1, 2500)>>

PitsRace == RaceArgs(PitsTrack, 2, 5000, 1000, FALSE, 5000, PitsGrid)

CutTrack ==
    Track(200000, 6000, 10000,
     <<Corner("C1", 40000, 50000, 60000, 10000, 5000),
       Corner("C2", 110000, 120000, 130000, 12000, 3000),
       Corner("Pit Entry", 170000, 180000, 190000, 10000, 0)>>,
     100)

CutGrid ==
    <<Driver(3000, -6000, 20000, 100000000, 1100, 900, 9, 1000),
      Driver(4000, -8000, 4000, 100000000, 1000, 1000, 3, 1000)>>

CutRace == RaceArgs(CutTrack, 2, 5000, 1000, TRUE, 8000, CutGrid)

HalfTrack ==
    Track(150000, 4000, 8000,
     <<Corner("C1", 30000, 50000, 70000, 8000, 4000),
       Corner("Pit Entry", 120000, 130000, 140000, 8000, 0)>>,
     100)

HalfGrid ==
    <<Driver(5000, -8000, 25000, 100000000, 1000, 1000, 1, 1000),
      Driver(6000, -8000, 30000, 3000000, 900, 1100, 2, 2000)>>

HalfRace == RaceArgs(HalfTrack, 1, 5000, 500, FALSE, 5000, HalfGrid)

LaneTrack ==
    Track(120000, 4000, 10000,
     <<Corner("C1", 0, 20000, 50000, 10000, 2000),
       Corner("Pit Entry", 90000, 100000, 110000, 6000, 6000)>>,
     0)

LaneGrid ==
    <<Driver(6000, -10000, 8000, 100000000, 900, 1000, 9, 2000),
      Driver(6000, -8000, 8000, 100000000, 1000, 1100, 9, 500),
      Driver(3000, -6000, 8000, 100000000, 1100, 1100, 1, 500)>>

LaneRace == RaceArgs(LaneTrack, 1, 5000, 1000, FALSE, 1000, LaneGrid)

BunchTrack ==
    Track(120000, 3000, 10000,
     <<Corner("C1", 0, 20000, 40000, 8000, 1000),
       Corner("C2", 60000, 70000, 80000, 14000, 0),
       Corner("Pit Entry", 90000, 100000, 110000, 10000, 3000)>>,
     300)

BunchGrid ==
    <<Driver(5000, -8000, 30000, 3000000, 1100, 1000, 1, 500),
      Driver(6000, -10000, 20000, 3000000, 900, 1000, 1, 500),
      Driver(7000, -10000, 25000, 3000000, 1100, 1100, 9, 2000),
      Driver(7000, -6000, 25000, 3000000, 1000, 1000, 1, 1000)>>

BunchRace == RaceArgs(BunchTrack, 1, 5000, 1000, FALSE, 1000, BunchGrid)

\* a quick car on pole finishes the single lap while the three behind it are
\* still bunched up in corners that allow no overtaking
FlagTrack ==
    Track(120000, 3000, 10000,
     <<Corner("C1", 0, 20000, 40000, 8000, 30000),
       Corner("C2", 60000, 70000, 80000, 14000, 30000),
       Corner("Pit Entry", 90000, 100000, 110000, 10000, 30000)>>,
     100)

FlagGrid ==
    <<Driver(9000, -10000, 40000, 100000000, 1000, 1000, 9, 1000),
      Driver(5000, -8000, 12000, 100000000, 900, 1000, 9, 1000),
      Driver(7000, -10000, 25000, 100000000, 1100, 1100, 9, 1000),
      Driver(7000, -6000, 25000, 100000000, 1000, 1000, 9, 1000)>>

FlagRace == RaceArgs(FlagTrack, 1, 5000, 1000, FALSE, 1000, FlagGrid)

\* a track whose first corner has its apex 5 m after the line; the car pits
\* on lap 1 of 2
TurnOneTrack ==
    Track(200000, 3000, 10000,
     <<Corner("C1", 0, 5000, 25000, 30000, 0),
       Corner("Pit Entry", 90000, 100000, 110000, 10000, 0)>>,
     0)

TurnOneGrid ==
    <<Driver(5000, -8000, 30000, 100000000, 1000, 1000, 1, 1000)>>

TurnOneRace == RaceArgs(TurnOneTrack, 2, 5000, 1000, FALSE, 1000, TurnOneGrid)

\* a track whose pit lane runs over the line and past the apex of the first
\* corner
SpanTrack ==
    Track(120000, 3000, 10000,
     <<Corner("C1", 0, 5000, 25000, 30000, 0),
       Corner("Pit Entry", 90000, 100000, 110000, 10000, 0)>>,
     0)

SpanGrid ==
    <<Driver(5000, -8000, 30000, 100000000, 1000, 1000, 1, 1000)>>

SpanRace == RaceArgs(SpanTrack, 2, 5000, 1000, FALSE, 1000, SpanGrid)

\* a track whose first corner has its apex after its end marker
SkewTrack ==
    Track(150000, 4000, 8000,
     <<Corner("C1", 30000, 70000, 50000, 8000, 4000),
       Corner("Pit Entry", 120000, 130000, 140000, 8000, 0)>>,
     100)

SkewGrid ==
    <<Driver(5000, -8000, 25000, 100000000, 1000, 1000, 1, 1000),
      Driver(6000, -8000, 30000, 3000000, 900, 1100, 2, 2000)>>

SkewRace == RaceArgs(SkewTrack, 1, 5000, 1000, FALSE, 5000, SkewGrid)

\* a pit lane of 1 s: the box of the second car on the grid, 1.5 s down the
\* lane, lies beyond its end
ShortLaneTrack ==
    Track(150000, 1000, 8000,
     <<Corner("C1", 30000, 50000, 70000, 8000, 4000),
       Corner("Pit Entry", 120000, 130000, 140000, 8000, 0)>>,
     100)

ShortLaneGrid ==
    <<Driver(5000, -8000, 25000, 100000000, 1000, 1000, 9, 1000),
      Driver(6000, -8000, 30000, 3000000, 900, 1100, 1, 2000)>>

ShortLaneRace == RaceArgs(ShortLaneTrack, 2, 5000, 1000, FALSE, 5000, ShortLaneGrid)

Configs ==
    {ShortRace, LongRace, WornRace, GridRace, LaunchRace, PackRace, SprintRace, TrioRace,
     DuelRace, PitsRace, CutRace, HalfRace, LaneRace,
     BunchRace, TurnOneRace, SpanRace,
     FlagRace}


(***************************************************************************)
(* State of one race() call                                                *)
(***************************************************************************)
VARIABLES
    cfg,                \* the arguments of the call (never modified)
    cars,               \* the mutable attributes of each Car object
    positions_dict,     \* ordering index -> car
    finished_cars,      \* cars in the order they were appended
    sim_car_df,         \* car -> Finish_Position, Finish_Time
    race_df,            \* the telemetry frames appended so far
    race_time,          \* whole seconds
    race_finished,
    pc,                 \* where race() is: "while", "for", "inner", "done"
    i,                  \* index of the for loop over range(len(car_list))
    mover,              \* race()'s local car = positions_dict[i], the car whose turn it is
    sum_time_increment,
    stuck_behind,
    car_position,
    next_corner,        \* race()'s local, an index into corner_list (-1: unbound)
    prev_corner,        \* race()'s local, an index into corner_list (-1: unbound)
    call,               \* the arguments and the branch of the latest overtake() call
    other_call,         \* another race() call on the same arguments: none, one that
                        \* returned earlier, or one suspended while this one runs
    start_grid_dict,    \* the Car objects handed to race(), as the caller sees them
    qual                \* qualifying(): its locals and the grid it builds

vars == <<cfg, cars, positions_dict, finished_cars, sim_car_df, race_df, race_time,
          race_finished, pc, i, mover, sum_time_increment, stuck_behind,
          car_position, next_corner, prev_corner, call, other_call,
          start_grid_dict, qual>>

track == cfg.track

car_length == cfg.car_length

car_list == DOMAIN cfg.start_grid

\* len(car_list)
NumCars == Cardinality(car_list)

\* len(track.corner_list)
NumCorners == Cardinality(DOMAIN track.corner_list)

\* race_distance = track.lap_length * race_laps
race_distance == track.lap_length * cfg.race_laps

\* max_fuel_effect = track.lap_fuel_effect * race_laps
max_fuel_effect == track.lap_fuel_effect * cfg.race_laps

\* car in finished_cars
IsFinished(c) == \E k \in 1 .. Len(finished_cars) : finished_cars[k] = c

\* car.tyre_perf = 1
fresh_tyre_perf == 10000

\* Car.__init__ followed by qualifying()'s grid placement
NewCar(grid_index, driver, grid_offset) ==
    [accel |-> driver.max_accel, brake |-> driver.max_brake, speed |-> 0,
     distance |-> grid_distance(grid_index, grid_offset), distance_travel |-> 0,
     tyre_wear |-> 0, tyre_deg |-> 0, tyre_perf |-> fresh_tyre_perf,
     tyre_corner_penalty |-> 0,
     lap_count |-> 0, box_location |-> grid_box_location(grid_index),
     in_pit |-> FALSE, pit_duration |-> 0, next_corner |-> 0]

\* variant: the row carries the clock of the macro-tick only
Frame_at_tick(c, car, sum_time) ==
    [car |-> c, race_time |-> race_time * 1000,
     lap |-> car.lap_count, position |-> i, distance |-> car.distance,
     speed |-> car.speed, tyre_wear |-> car.tyre_wear,
     tyre_performance |-> car.tyre_perf]

\* one telemetry row as race() appends it
Frame(c, car, sum_time) ==
    [car |-> c, race_time |-> race_time * 1000 + sum_time,
     lap |-> car.lap_count, position |-> i, distance |-> car.distance,
     speed |-> car.speed, tyre_wear |-> car.tyre_wear,
     tyre_performance |-> car.tyre_perf]

NoCall == [kind |-> "none"]

\* qualifying() is not running
NoQualifying == [pc |-> "none"]

\* the telemetry and the finish table that race() returns
Returned(kind) == [kind |-> kind, race_df |-> race_df, sim_car_df |-> sim_car_df]

(***************************************************************************)
(* overtake(track, car, potential_dist, potential_speed, next_corner,      *)
(*          prev_corner)                                                   *)
(*                                                                         *)
(* The resolver works on a record r holding what the call may change:      *)
(* positions_dict, car_position, stuck_behind and the mover's              *)
(* distance_travel and speed; branch, front and front_index remember the   *)
(* last branch taken and the car_in_front it was taken against.            *)
(***************************************************************************)
\* (car.distance + potential_dist) <= car_in_front.distance - car_length
gap_kept(distance, potential_dist, front_distance, car_len) ==
    distance + potential_dist <= front_distance - car_len

\* the overtake_req selected from prev_corner, next_corner or 0
overtake_req_of(car_lap_dist, nc, pcn) ==
    IF track.corner_list[pcn].start < car_lap_dist /\ car_lap_dist < track.corner_list[pcn].end
    THEN track.corner_list[pcn].overtake
    ELSE IF track.corner_list[nc].start < car_lap_dist /\ car_lap_dist < track.corner_list[nc].end
    THEN track.corner_list[nc].overtake
    ELSE 0

\* variant: a requirement of 0 is not treated as always met
legal_contest_nonzero(potential_speed, front_speed, overtake_req) ==
    potential_speed - front_speed >= overtake_req /\ overtake_req # 0

\* ((potential_speed - car_in_front.speed) >= overtake_req) | (overtake_req == 0)
legal_contest(potential_speed, front_speed, overtake_req) ==
    potential_speed - front_speed >= overtake_req \/ overtake_req = 0

\* car.distance_travel = car_in_front.distance - car.distance - car_length
blocked_travel(front_distance, distance, car_len) == front_distance - distance - car_len

\* variant: the blocked mover keeps its potential speed
blocked_speed_kept(front_speed, potential_speed) == potential_speed

\* car.speed = min(car_in_front.speed, potential_speed)
blocked_speed(front_speed, potential_speed) == Min2(front_speed, potential_speed)

\* variant: the ordering is left as it is
swap_ahead_never(r, c, idx) == r

\* positions_dict[-x] = car; positions_dict[-x+1] = car_in_front; car_position = -x
swap_ahead(r, c, idx) ==
    [r EXCEPT !.positions_dict = [r.positions_dict EXCEPT ![idx] = c,
                                                          ![idx + 1] = r.positions_dict[idx]],
              !.car_position = idx]

\* variant: the free mover is marked blocked all the same
free_move_flagged(r, potential_dist, potential_speed, branch, idx) ==
    [r EXCEPT !.distance_travel = potential_dist, !.speed = potential_speed,
              !.stuck_behind = TRUE,
              !.branch = branch, !.front = r.positions_dict[idx], !.front_index = idx]

\* car.distance_travel = potential_dist; car.speed = potential_speed
free_move(r, potential_dist, potential_speed, branch, idx) ==
    [r EXCEPT !.distance_travel = potential_dist, !.speed = potential_speed,
              !.branch = branch, !.front = r.positions_dict[idx], !.front_index = idx]

\* the clamp of a blocked mover
block_move(r, c, potential_speed, branch, idx) ==
    LET f == r.positions_dict[idx]
    IN  [r EXCEPT !.distance_travel = blocked_travel(cars[f].distance, cars[c].distance, car_length),
                  !.speed = blocked_speed(cars[f].speed, potential_speed),
                  !.stuck_behind = TRUE,
                  !.branch = branch, !.front = f, !.front_index = idx]

\* for k in range(-x+2, len(positions_dict)): hand the place back to each car
\* behind that the clamped mover no longer leads
RECURSIVE repass(_, _, _)
repass(r, c, k) ==
    IF k >= NumCars THEN r
    ELSE LET car_behind == r.positions_dict[k]
         IN  IF r.distance_travel < cars[car_behind].distance - cars[c].distance
                /\ k > r.car_position
             THEN repass([r EXCEPT !.positions_dict =
                                       [r.positions_dict EXCEPT ![k - 1] = car_behind, ![k] = c],
                                   !.car_position = k], c, k + 1)
             ELSE r

\* variant: a mover that reaches a finished car takes its place
RECURSIVE scan_ahead_past_finished(_, _, _, _, _, _, _)
scan_ahead_past_finished(r, c, idx, potential_dist, potential_speed, nc, pcn) ==
    LET f      == r.positions_dict[idx]
        car    == cars[c]
        front  == cars[f]
        reach  == car.distance + potential_dist
        more(q) == IF idx = 0 THEN q
                   ELSE scan_ahead_past_finished(q, c, idx - 1, potential_dist, potential_speed, nc, pcn)
    IN  IF gap_kept(car.distance, potential_dist, front.distance, car_length)
        THEN free_move(r, potential_dist, potential_speed, "clear", idx)
        ELSE IF IsFinished(f)
        THEN swap_ahead(free_move(r, potential_dist, potential_speed, "finished", idx),
                        c, idx)
        ELSE IF front.in_pit
        THEN IF ~car.in_pit /\ track.corner_list[nc].name # "Pit Entry"
             THEN IF reach > front.distance
                  THEN more(swap_ahead(free_move(r, potential_dist, potential_speed,
                                                 "pit_pass", idx), c, idx))
                  ELSE more(free_move(r, potential_dist, potential_speed, "pit_alongside", idx))
             ELSE IF front.speed = 0
             THEN IF reach > front.distance
                  THEN more(swap_ahead(free_move(r, potential_dist, potential_speed,
                                                 "box_pass", idx), c, idx))
                  ELSE more(free_move(r, potential_dist, potential_speed, "box_alongside", idx))
             ELSE block_move(r, c, potential_speed, "pit_block", idx)
        ELSE IF legal_contest(potential_speed, front.speed,
                              overtake_req_of(car.distance - track.lap_length * car.lap_count,
                                              nc, pcn))
        THEN IF reach < front.distance
             THEN more(free_move(r, potential_dist, potential_speed, "alongside", idx))
             ELSE more(swap_ahead(free_move(r, potential_dist, potential_speed, "pass", idx),
                                  c, idx))
        ELSE repass(block_move(r, c, potential_speed, "block", idx), c, idx + 2)

\* one iteration of "for x in range(-car_position + 1, 1)" with idx = -x, and
\* the iterations after it unless the branch breaks
RECURSIVE scan_ahead(_, _, _, _, _, _, _)
scan_ahead(r, c, idx, potential_dist, potential_speed, nc, pcn) ==
    LET f      == r.positions_dict[idx]
        car    == cars[c]
        front  == cars[f]
        reach  == car.distance + potential_dist
        more(q) == IF idx = 0 THEN q
                   ELSE scan_ahead(q, c, idx - 1, potential_dist, potential_speed, nc, pcn)
    IN  IF gap_kept(car.distance, potential_dist, front.distance, car_length)
        THEN free_move(r, potential_dist, potential_speed, "clear", idx)
        ELSE IF IsFinished(f)
        THEN free_move(r, potential_dist, potential_speed, "finished", idx)
        ELSE IF front.in_pit
        THEN IF ~car.in_pit /\ track.corner_list[nc].name # "Pit Entry"
             THEN IF reach > front.distance
                  THEN more(swap_ahead(free_move(r, potential_dist, potential_speed,
                                                 "pit_pass", idx), c, idx))
                  ELSE more(free_move(r, potential_dist, potential_speed, "pit_alongside", idx))
             ELSE IF front.speed = 0
             THEN IF reach > front.distance
                  THEN more(swap_ahead(free_move(r, potential_dist, potential_speed,
                                                 "box_pass", idx), c, idx))
                  ELSE more(free_move(r, potential_dist, potential_speed, "box_alongside", idx))
             ELSE block_move(r, c, potential_speed, "pit_block", idx)
        ELSE IF legal_contest(potential_speed, front.speed,
                              overtake_req_of(car.distance - track.lap_length * car.lap_count,
                                              nc, pcn))
        THEN IF reach < front.distance
             THEN more(free_move(r, potential_dist, potential_speed, "alongside", idx))
             ELSE more(swap_ahead(free_move(r, potential_dist, potential_speed, "pass", idx),
                                  c, idx))
        ELSE repass(block_move(r, c, potential_speed, "block", idx), c, idx + 2)

\* variant: the mover is held where it is, whatever its place
overtake_held(c, potential_dist, potential_speed, nc, pcn) ==
    [positions_dict |-> positions_dict, car_position |-> car_position,
     stuck_behind |-> TRUE, distance_travel |-> 0, speed |-> 0,
     branch |-> "leader", front |-> c, front_index |-> 0]

\* the whole call for mover c
overtake(c, potential_dist, potential_speed, nc, pcn) ==
    LET r0 == [positions_dict |-> positions_dict, car_position |-> car_position,
               stuck_behind |-> stuck_behind, distance_travel |-> cars[c].distance_travel,
               speed |-> cars[c].speed, branch |-> "leader", front |-> c, front_index |-> 0]
    IN  IF car_position = 0
        THEN [r0 EXCEPT !.distance_travel = potential_dist, !.speed = potential_speed]
        ELSE scan_ahead(r0, c, car_position - 1, potential_dist, potential_speed, nc, pcn)

\* what race() keeps of a call for the claims about it
CallRecord(c, potential_dist, potential_speed, nc, pcn, r) ==
    [kind |-> "overtake", car |-> c, car_position |-> car_position,
     positions_dict |-> positions_dict, distance |-> cars[c].distance,
     in_pit |-> cars[c].in_pit, speed |-> cars[c].speed,
     potential_dist |-> potential_dist, potential_speed |-> potential_speed,
     next_corner |-> nc, prev_corner |-> pcn, own_corner |-> cars[c].next_corner,
     branch |-> r.branch, front |-> r.front, front_index |-> r.front_index]

(***************************************************************************)
(* race(): the main loop and the per-car turn                              *)
(***************************************************************************)
\* variant: the time limit is not looked at
loop_condition_unlimited == ~race_finished

\* (race_finished == False) & ((race_time < time_limit) | (race_time_limit == False))
loop_condition ==
    ~race_finished /\ (race_time < TimeLimit \/ ~cfg.race_time_limit)

\* (round(sum_time_increment, 2) < time_period) & (stuck_behind == False)
turn_condition ==
    RoundTo(sum_time_increment, 10) < cfg.time_period /\ ~stuck_behind

\* the lap count after "if car.distance - (car.lap_count * track.lap_length) >
\* track.lap_length: car.lap_count += 1"
counted_lap(car) ==
    IF car.distance - car.lap_count * track.lap_length > track.lap_length
    THEN car.lap_count + 1 ELSE car.lap_count

\* variant: the run has worked on the Car objects it was handed
Return_on_passed_cars ==
    /\ pc = "while"
    /\ ~loop_condition
    /\ pc' = "done"
    /\ call' = NoCall
    /\ start_grid_dict' = cars
    /\ UNCHANGED <<cfg, qual, other_call, mover, cars, positions_dict, finished_cars, sim_car_df,
                   race_df, race_time, race_finished, i, sum_time_increment, stuck_behind,
                   car_position, next_corner, prev_corner>>

\* the while condition fails: return race_df, sim_car_df
Return ==
    /\ pc = "while"
    /\ ~loop_condition
    /\ pc' = "done"
    /\ call' = NoCall
    /\ UNCHANGED <<cfg, start_grid_dict, qual, other_call, mover, cars, positions_dict, finished_cars, sim_car_df, race_df,
                   race_time, race_finished, i, sum_time_increment, stuck_behind,
                   car_position, next_corner, prev_corner>>

\* len(finished_cars) == len(car_list): race_finished = True
AllFinished ==
    /\ pc = "while"
    /\ loop_condition
    /\ Len(finished_cars) = NumCars
    /\ race_finished' = TRUE
    /\ call' = NoCall
    /\ UNCHANGED <<cfg, start_grid_dict, qual, other_call, mover, cars, positions_dict, finished_cars, sim_car_df, race_df,
                   race_time, pc, i, sum_time_increment, stuck_behind, car_position,
                   next_corner, prev_corner>>

\* otherwise the for loop over the ordering starts
StartTick ==
    /\ pc = "while"
    /\ loop_condition
    /\ Len(finished_cars) # NumCars
    /\ race_time < MaxRaceTime
    /\ pc' = "for"
    /\ i' = 0
    /\ call' = NoCall
    /\ UNCHANGED <<cfg, start_grid_dict, qual, other_call, mover, cars, positions_dict, finished_cars, sim_car_df, race_df,
                   race_time, race_finished, sum_time_increment, stuck_behind,
                   car_position, next_corner, prev_corner>>

\* if car in finished_cars: continue
SkipFinished ==
    /\ pc = "for"
    /\ i < NumCars
    /\ IsFinished(positions_dict[i])
    /\ mover' = positions_dict[i]
    /\ car_position' = i
    /\ i' = i + 1
    /\ call' = NoCall
    /\ UNCHANGED <<cfg, start_grid_dict, qual, other_call, cars, positions_dict, finished_cars, sim_car_df, race_df,
                   race_time, race_finished, pc, sum_time_increment, stuck_behind,
                   next_corner, prev_corner>>

\* the car has covered the race distance: record its finish and continue
CrossLine ==
    /\ pc = "for"
    /\ i < NumCars
    /\ ~IsFinished(positions_dict[i])
    /\ cars[positions_dict[i]].distance > track.lap_length * cfg.race_laps
    /\ cars' = [cars EXCEPT ![positions_dict[i]].lap_count = counted_lap(cars[positions_dict[i]])]
    /\ finished_cars' = Append(finished_cars, positions_dict[i])
    /\ sim_car_df' = [sim_car_df EXCEPT ![positions_dict[i]] =
                          [Finish_Position |-> i, Finish_Time |-> race_time]]
    /\ mover' = positions_dict[i]
    /\ car_position' = i
    /\ i' = i + 1
    /\ call' = NoCall
    /\ UNCHANGED <<cfg, start_grid_dict, qual, other_call, positions_dict, race_df, race_time, race_finished, pc,
                   sum_time_increment, stuck_behind, next_corner, prev_corner>>

\* otherwise the car's turn starts
BeginTurn ==
    /\ pc = "for"
    /\ i < NumCars
    /\ ~IsFinished(positions_dict[i])
    /\ ~(cars[positions_dict[i]].distance > track.lap_length * cfg.race_laps)
    /\ cars' = [cars EXCEPT ![positions_dict[i]].lap_count = counted_lap(cars[positions_dict[i]])]
    /\ mover' = positions_dict[i]
    /\ car_position' = i
    /\ sum_time_increment' = 0
    /\ stuck_behind' = FALSE
    /\ pc' = "inner"
    /\ call' = NoCall
    /\ UNCHANGED <<cfg, start_grid_dict, qual, other_call, positions_dict, finished_cars, sim_car_df, race_df, race_time,
                   race_finished, i, next_corner, prev_corner>>

\* the inner while ends: next car
EndTurn ==
    /\ pc = "inner"
    /\ ~turn_condition
    /\ pc' = "for"
    /\ i' = i + 1
    /\ call' = NoCall
    /\ UNCHANGED <<cfg, start_grid_dict, qual, other_call, mover, cars, positions_dict, finished_cars, sim_car_df, race_df,
                   race_time, race_finished, sum_time_increment, stuck_behind,
                   car_position, next_corner, prev_corner>>

\* the for loop ends: race_time += timedelta(seconds=1)
EndTick ==
    /\ pc = "for"
    /\ i = NumCars
    /\ race_time' = race_time + 1
    /\ pc' = "while"
    /\ call' = NoCall
    /\ UNCHANGED <<cfg, start_grid_dict, qual, other_call, mover, cars, positions_dict, finished_cars, sim_car_df, race_df,
                   race_finished, i, sum_time_increment, stuck_behind, car_position,
                   next_corner, prev_corner>>

(***************************************************************************)
(* race(): one pass of the inner while for a car in the pit lane           *)
(***************************************************************************)
\* max(0.005, min(1, (1 - sum_time_increment), (phase_end - car.pit_duration)))
pit_increment(phase_end, pit_duration) ==
    Max2(MinIncrement, Min3(1000, 1000 - sum_time_increment, phase_end - pit_duration))

\* potential_dist = t_p * track.pit_speed_limit
pit_potential_dist(t_p) == (t_p * track.pit_speed_limit) \div 1000

\* variant: the stationary phase in the box is left out
pit_phase_without_box(car) ==
    IF car.pit_duration < car.box_location THEN "approaching_box"
    ELSE IF car.pit_duration < track.pit_length + cfg.start_grid[mover].box_time
    THEN "leaving_lane"
    ELSE "exit"

\* the pit-lane phase selected by the if / elif chain on car.pit_duration
pit_phase(car) ==
    IF car.pit_duration < car.box_location THEN "approaching_box"
    ELSE IF car.pit_duration < car.box_location + cfg.start_grid[mover].box_time
    THEN "in_box"
    ELSE IF car.pit_duration < track.pit_length + cfg.start_grid[mover].box_time
    THEN "leaving_lane"
    ELSE "exit"

\* a move along the pit lane up to phase_end: overtake(), then the car's
\* distance, pit_duration, the time used and a telemetry row
PitLaneMove(phase_end) ==
    LET c   == mover
        t_p == pit_increment(phase_end, cars[c].pit_duration)
        r   == overtake(c, pit_potential_dist(t_p), track.pit_speed_limit,
                        next_corner, prev_corner)
        car == [cars[c] EXCEPT !.tyre_corner_penalty = 0,
                               !.distance_travel = r.distance_travel,
                               !.speed = r.speed,
                               !.distance = @ + r.distance_travel,
                               !.pit_duration = @ + t_p]
    IN  /\ cars' = [cars EXCEPT ![c] = car]
        /\ positions_dict' = r.positions_dict
        /\ car_position' = r.car_position
        /\ stuck_behind' = r.stuck_behind
        /\ sum_time_increment' = sum_time_increment + t_p
        /\ race_df' = Append(race_df, Frame(c, car, sum_time_increment + t_p))
        /\ call' = CallRecord(c, pit_potential_dist(t_p), track.pit_speed_limit,
                              next_corner, prev_corner, r)
        /\ UNCHANGED <<cfg, start_grid_dict, qual, other_call, mover, finished_cars, sim_car_df, race_time, race_finished, pc, i,
                       next_corner, prev_corner>>

\* car.pit_duration < car.box_location
ApproachBox ==
    /\ pc = "inner"
    /\ turn_condition
    /\ cars[mover].in_pit
    /\ pit_phase(cars[mover]) = "approaching_box"
    /\ PitLaneMove(cars[mover].box_location)

\* variant: the box dwell leaves the tyres as they are
InBox_on_old_tyres ==
    /\ pc = "inner"
    /\ turn_condition
    /\ cars[mover].in_pit
    /\ pit_phase(cars[mover]) = "in_box"
    /\ LET c   == mover
           t_p == pit_increment(cars[c].box_location + cfg.start_grid[c].box_time,
                                cars[c].pit_duration)
           car == [cars[c] EXCEPT !.tyre_corner_penalty = 0,
                                  !.speed = 0,
                                  !.pit_duration = @ + t_p]
       IN  /\ cars' = [cars EXCEPT ![c] = car]
           /\ sum_time_increment' = sum_time_increment + t_p
           /\ race_df' = Append(race_df, Frame(c, car, sum_time_increment + t_p))
    /\ call' = NoCall
    /\ UNCHANGED <<cfg, start_grid_dict, qual, other_call, mover, positions_dict, finished_cars, sim_car_df, race_time,
                   race_finished, pc, i, stuck_behind, car_position, next_corner,
                   prev_corner>>

\* car.pit_duration < car.box_location + car.box_time: stationary, new tyres
InBox ==
    /\ pc = "inner"
    /\ turn_condition
    /\ cars[mover].in_pit
    /\ pit_phase(cars[mover]) = "in_box"
    /\ LET c   == mover
           t_p == pit_increment(cars[c].box_location + cfg.start_grid[c].box_time,
                                cars[c].pit_duration)
           car == [cars[c] EXCEPT !.tyre_corner_penalty = 0,
                                  !.tyre_wear = 0, !.tyre_deg = 0,
                                  !.tyre_perf = fresh_tyre_perf,
                                  !.speed = 0,
                                  !.pit_duration = @ + t_p]
       IN  /\ cars' = [cars EXCEPT ![c] = car]
           /\ sum_time_increment' = sum_time_increment + t_p
           /\ race_df' = Append(race_df, Frame(c, car, sum_time_increment + t_p))
    /\ call' = NoCall
    /\ UNCHANGED <<cfg, start_grid_dict, qual, other_call, mover, positions_dict, finished_cars, sim_car_df, race_time,
                   race_finished, pc, i, stuck_behind, car_position, next_corner,
                   prev_corner>>

\* car.pit_duration < track.pit_length + car.box_time
LeaveLane ==
    /\ pc = "inner"
    /\ turn_condition
    /\ cars[mover].in_pit
    /\ pit_phase(cars[mover]) = "leaving_lane"
    /\ PitLaneMove(track.pit_length + cfg.start_grid[mover].box_time)

\* else: car.in_pit = False
ExitPit ==
    /\ pc = "inner"
    /\ turn_condition
    /\ cars[mover].in_pit
    /\ pit_phase(cars[mover]) = "exit"
    /\ cars' = [cars EXCEPT ![mover].tyre_corner_penalty = 0, ![mover].in_pit = FALSE]
    /\ call' = NoCall
    /\ UNCHANGED <<cfg, start_grid_dict, qual, other_call, mover, positions_dict, finished_cars, sim_car_df, race_df, race_time,
                   race_finished, pc, i, sum_time_increment, stuck_behind, car_position,
                   next_corner, prev_corner>>

(***************************************************************************)
(* race(): one pass of the inner while for a car on the track              *)
(***************************************************************************)
\* prev_corner = track.corner_list[car.next_corner - 1], or the one before it
\* when that is the Pit Entry
prev_corner_of(nc) ==
    IF track.corner_list[(nc - 1) % NumCorners].name = "Pit Entry"
    THEN (nc - 2) % NumCorners
    ELSE (nc - 1) % NumCorners

\* the car after calc_tyre_perf, calc_accel, calc_brake and the penalty reset
prepared(c) ==
    LET worn == calc_tyre_perf(cars[c], cfg.start_grid[c].max_tyre_life,
                               max_fuel_effect, race_distance)
    IN  [worn EXCEPT !.accel = calc_accel(cfg.start_grid[c].max_accel, worn.tyre_perf,
                                          max_fuel_effect, worn.distance, race_distance),
                     !.brake = calc_accel(cfg.start_grid[c].max_brake, worn.tyre_perf,
                                          max_fuel_effect, worn.distance, race_distance),
                     !.tyre_corner_penalty = 0]

\* next_corner.speed after next_corner.calc_apex_speed(car.tyre_perf, car.cornering)
corner_speed(c) ==
    calc_apex_speed(track.corner_list[cars[c].next_corner].max_speed,
                    prepared(c).tyre_perf, cfg.start_grid[c].cornering)

\* car_apex_speed = next_corner.speed * car.drive_style
car_apex_speed(c) == (corner_speed(c) * cfg.start_grid[c].drive_style) \div 1000

\* apex_dist, made positive by one lap_length when negative
apex_dist(c) ==
    LET d == track.corner_list[cars[c].next_corner].apex
               + track.lap_length * cars[c].lap_count - cars[c].distance
    IN  IF d < 0 THEN d + track.lap_length ELSE d

\* dist_delta = apex_dist - brake_dist
dist_delta(c) ==
    apex_dist(c) - calc_brake_dist(cars[c].speed, car_apex_speed(c), prepared(c).brake)

\* t_b
brake_time(c) ==
    Max2(MinIncrement,
         Min3(((cars[c].speed - car_apex_speed(c)) * 1000) \div (-prepared(c).brake),
              solve_brake_time_func(cars[c].speed, prepared(c).brake, apex_dist(c)),
              1000 - sum_time_increment))

\* t_c
cruise_time(c) ==
    Max2(MinIncrement,
         Min2((dist_delta(c) * 1000) \div cfg.start_grid[c].max_speed,
              1000 - sum_time_increment))

\* variant: t_a without the (1 - sum_time_increment) candidate
accel_time_unbudgeted(c) ==
    Max2(MinIncrement,
         Min2(((cfg.start_grid[c].max_speed - cars[c].speed) * 1000) \div prepared(c).accel,
              solve_accel_brake_time_func(cars[c].speed, prepared(c).accel,
                                          prepared(c).brake, dist_delta(c))))

\* t_a
accel_time(c) ==
    Max2(MinIncrement,
         Min3(((cfg.start_grid[c].max_speed - cars[c].speed) * 1000) \div prepared(c).accel,
              solve_accel_brake_time_func(cars[c].speed, prepared(c).accel,
                                          prepared(c).brake, dist_delta(c)),
              1000 - sum_time_increment))

\* the apex test after the move: tyre penalty, pit entry, next corner
after_apex(c, car) ==
    IF RoundTo(car.distance_travel, 10) >= RoundTo(apex_dist(c), 10)
    THEN LET corner == track.corner_list[cars[c].next_corner]
             nxt    == (cars[c].next_corner + 1) % NumCorners
         IN  [car EXCEPT
                !.tyre_corner_penalty =
                    corner_penalty(car.speed - corner_speed(c), corner.end - corner.start),
                !.in_pit = IF corner.name = "Pit Entry" THEN TRUE ELSE @,
                !.next_corner =
                    IF track.corner_list[nxt].name = "Pit Entry"
                       /\ car.lap_count + 1 # cfg.start_grid[c].pit_lap
                    THEN (nxt + 1) % NumCorners
                    ELSE nxt]
    ELSE car

\* overtake() with the potential move, then the car's distance, the time
\* used, a telemetry row and the apex test
TrackMove(t, potential_dist, potential_speed) ==
    LET c   == mover
        nc  == cars[c].next_corner
        pcn == prev_corner_of(nc)
        r   == overtake(c, potential_dist, potential_speed, nc, pcn)
        car == [prepared(c) EXCEPT !.distance_travel = r.distance_travel,
                                   !.speed = r.speed,
                                   !.distance = @ + r.distance_travel]
    IN  /\ cars' = [cars EXCEPT ![c] = after_apex(c, car)]
        /\ positions_dict' = r.positions_dict
        /\ car_position' = r.car_position
        /\ stuck_behind' = r.stuck_behind
        /\ sum_time_increment' = sum_time_increment + t
        /\ race_df' = Append(race_df, Frame(c, car, sum_time_increment + t))
        /\ next_corner' = nc
        /\ prev_corner' = pcn
        /\ call' = CallRecord(c, potential_dist, potential_speed, nc, pcn, r)
        /\ UNCHANGED <<cfg, start_grid_dict, qual, other_call, mover, finished_cars, sim_car_df, race_time, race_finished, pc, i>>

\* round(dist_delta, 1) <= 0: brake for the corner
Brake ==
    /\ pc = "inner"
    /\ turn_condition
    /\ ~cars[mover].in_pit
    /\ RoundTo(dist_delta(mover), 100) <= 0
    /\ TrackMove(brake_time(mover),
                 calc_dist(cars[mover].speed, brake_time(mover), prepared(mover).brake,
                           cfg.start_grid[mover].max_speed),
                 update_vel(cars[mover].speed, prepared(mover).brake, brake_time(mover)))

\* car.speed >= car.max_speed: hold the maximum speed
Cruise ==
    /\ pc = "inner"
    /\ turn_condition
    /\ ~cars[mover].in_pit
    /\ RoundTo(dist_delta(mover), 100) > 0
    /\ cars[mover].speed >= cfg.start_grid[mover].max_speed
    /\ TrackMove(cruise_time(mover),
                 calc_dist(cars[mover].speed, cruise_time(mover), prepared(mover).accel,
                           cfg.start_grid[mover].max_speed),
                 cfg.start_grid[mover].max_speed)

\* variant: the new speed is not capped at car.max_speed
Accelerate_past_max_speed ==
    /\ pc = "inner"
    /\ turn_condition
    /\ ~cars[mover].in_pit
    /\ RoundTo(dist_delta(mover), 100) > 0
    /\ cars[mover].speed < cfg.start_grid[mover].max_speed
    /\ TrackMove(accel_time(mover),
                 calc_dist(cars[mover].speed, accel_time(mover), prepared(mover).accel,
                           cfg.start_grid[mover].max_speed),
                 update_vel(cars[mover].speed, prepared(mover).accel, accel_time(mover)))

\* otherwise: accelerate
Accelerate ==
    /\ pc = "inner"
    /\ turn_condition
    /\ ~cars[mover].in_pit
    /\ RoundTo(dist_delta(mover), 100) > 0
    /\ cars[mover].speed < cfg.start_grid[mover].max_speed
    /\ TrackMove(accel_time(mover),
                 calc_dist(cars[mover].speed, accel_time(mover), prepared(mover).accel,
                           cfg.start_grid[mover].max_speed),
                 Min2(cfg.start_grid[mover].max_speed,
                      update_vel(cars[mover].speed, prepared(mover).accel,
                                 accel_time(mover))))

(***************************************************************************)
(* Specification                                                           *)
(***************************************************************************)
Init ==
    /\ cfg \in Configs
    /\ cars = [c \in DOMAIN cfg.start_grid |->
                   NewCar(c, cfg.start_grid[c], cfg.grid_offset)]
    /\ positions_dict = [k \in DOMAIN cfg.start_grid |-> k]
    /\ finished_cars = <<>>
    /\ sim_car_df = [c \in DOMAIN cfg.start_grid |->
                         [Finish_Position |-> 0, Finish_Time |-> 0]]
    /\ race_df = <<>>
    /\ race_time = 0
    /\ race_finished = FALSE
    /\ pc = "while"
    /\ i = 0
    /\ mover = 0
    /\ sum_time_increment = 0
    /\ stuck_behind = FALSE
    /\ car_position = 0
    /\ next_corner = -1
    /\ prev_corner = -1
    /\ call = NoCall
    /\ other_call = NoCall
    /\ start_grid_dict = [c \in DOMAIN cfg.start_grid |->
                              NewCar(c, cfg.start_grid[c], cfg.grid_offset)]
    /\ qual = NoQualifying

Next ==
    \/ Return
    \/ AllFinished
    \/ StartTick
    \/ SkipFinished
    \/ CrossLine
    \/ BeginTurn
    \/ EndTurn
    \/ EndTick
    \/ ApproachBox
    \/ InBox
    \/ LeaveLane
    \/ ExitPit
    \/ Brake
    \/ Cruise
    \/ Accelerate

Spec == Init /\ [][Next]_vars

\* ---------------------------------------------------------------------------
\* Construction of the inputs before race() is called
\* ---------------------------------------------------------------------------

LaxConfigs == Configs \cup {SkewRace, ShortLaneRace}

\* Car.__init__ and Corner.__init__ assign their arguments to the attributes
\* and return; neither tests a value nor raises
Construct ==
    /\ pc = "construct"
    /\ cars' = [c \in DOMAIN cfg.start_grid |->
                    NewCar(c, cfg.start_grid[c], cfg.grid_offset)]
    /\ start_grid_dict' = [c \in DOMAIN cfg.start_grid |->
                               NewCar(c, cfg.start_grid[c], cfg.grid_offset)]
    /\ pc' = "while"
    /\ UNCHANGED <<cfg, qual, other_call, positions_dict, finished_cars, sim_car_df, race_df,
                   race_time, race_finished, i, mover, sum_time_increment,
                   stuck_behind, car_position, next_corner, prev_corner, call>>

LaxInit ==
    /\ cfg \in LaxConfigs
    /\ cars = <<>>
    /\ positions_dict = [k \in DOMAIN cfg.start_grid |-> k]
    /\ finished_cars = <<>>
    /\ sim_car_df = [c \in DOMAIN cfg.start_grid |->
                         [Finish_Position |-> 0, Finish_Time |-> 0]]
    /\ race_df = <<>>
    /\ race_time = 0
    /\ race_finished = FALSE
    /\ pc = "construct"
    /\ i = 0
    /\ mover = 0
    /\ sum_time_increment = 0
    /\ stuck_behind = FALSE
    /\ car_position = 0
    /\ next_corner = -1
    /\ prev_corner = -1
    /\ call = NoCall
    /\ other_call = NoCall
    /\ start_grid_dict = <<>>
    /\ qual = NoQualifying

LaxNext ==
    \/ Construct
    \/ Next

LaxSpec == LaxInit /\ [][LaxNext]_vars

(***************************************************************************)
(* Two race() calls on the same arguments.  positions_dict, finished_cars, *)
(* race_time, car_length, car_position and stuck_behind are module         *)
(* globals, shared by every call; the other variables are locals of the    *)
(* call.  Each call deep-copies the start grid, so its Car objects are its *)
(* own; cars holds the objects positions_dict refers to.                   *)
(***************************************************************************)
MaxInterleaveAt == 2

\* variant: the list of the last call is kept
kept_finished_cars == finished_cars

\* finished_cars = []
entry_finished_cars == <<>>

\* race() up to its while loop: the globals and the locals it assigns; the
\* globals car_position and stuck_behind keep what the last call left
Enter ==
    /\ positions_dict' = [k \in DOMAIN cfg.start_grid |-> k]
    /\ cars' = start_grid_dict
    /\ sim_car_df' = [c \in DOMAIN cfg.start_grid |->
                          [Finish_Position |-> 0, Finish_Time |-> 0]]
    /\ race_df' = <<>>
    /\ race_finished' = FALSE
    /\ race_time' = 0
    /\ finished_cars' = entry_finished_cars
    /\ pc' = "while"
    /\ call' = NoCall
    /\ UNCHANGED <<cfg, start_grid_dict, qual, i, mover, sum_time_increment, stuck_behind, car_position,
                   next_corner, prev_corner>>

\* race() is called again after a call has returned
Replay ==
    /\ pc = "done"
    /\ other_call = NoCall
    /\ other_call' = Returned("returned")
    /\ Enter

\* a second call runs while the first is suspended at the head of its while
\* loop, between two macro-ticks
Interleave ==
    /\ pc = "while"
    /\ other_call = NoCall
    /\ loop_condition
    /\ race_time < MaxInterleaveAt
    /\ other_call' = [kind |-> "suspended", race_df |-> race_df,
                      sim_car_df |-> sim_car_df, race_finished |-> race_finished,
                      i |-> i, mover |-> mover,
                      sum_time_increment |-> sum_time_increment,
                      next_corner |-> next_corner, prev_corner |-> prev_corner]
    /\ Enter

\* the second call has returned and the suspended call goes on: its locals
\* are its own, the globals are as the second call left them
Resume ==
    /\ pc = "done"
    /\ other_call.kind = "suspended"
    /\ other_call' = Returned("interleaved")
    /\ race_df' = other_call.race_df
    /\ sim_car_df' = other_call.sim_car_df
    /\ race_finished' = other_call.race_finished
    /\ i' = other_call.i
    /\ mover' = other_call.mover
    /\ sum_time_increment' = other_call.sum_time_increment
    /\ next_corner' = other_call.next_corner
    /\ prev_corner' = other_call.prev_corner
    /\ pc' = "while"
    /\ call' = NoCall
    /\ UNCHANGED <<cfg, start_grid_dict, qual, cars, positions_dict, finished_cars, race_time, stuck_behind,
                   car_position>>

TwoCallNext ==
    \/ Next
    \/ Replay
    \/ Interleave
    \/ Resume

TwoCallSpec == Init /\ [][TwoCallNext]_vars

(***************************************************************************)
(* qualifying(car_list, car_df, track, grid_offset): every car runs two    *)
(* laps alone, the flying lap gives its adjusted qualifying time, and the  *)
(* grid is built from the times.  The flying lap of a car (qual_time in    *)
(* ms, qual_dist in mm) is an input here.                                  *)
(***************************************************************************)
\* qual_time of a flying lap, and qual_dist - lap_length (the frames of the
\* flying lap cover a little more than one lap)
QualTimes == {8000, 8266}

QualOvershoots == {7000, 9000}

\* the car lists qualifying() is run on
QualConfigs == {TrioRace, DuelRace}

\* adj_qual_time = qual_time - ((qual_dist - lap_length) / lap_length) * (qual_time / 1.3)
adj_qual_time_of(qual_time, qual_dist, lap_length) ==
    qual_time - ((qual_dist - lap_length) * ((qual_time * 10) \div 13)) \div lap_length

\* adj_qual_time_dict[adj_qual_time] = car
dict_set(dict, key, value) ==
    [k \in DOMAIN dict \cup {key} |-> IF k = key THEN value ELSE dict[k]]

\* sorted(list(adj_qual_time_dict.keys()))
RECURSIVE sorted(_)
sorted(keys) ==
    IF keys = {} THEN <<>>
    ELSE LET least == CHOOSE k \in keys : \A m \in keys : k <= m
         IN  <<least>> \o sorted(keys \ {least})

\* the adjusted time of the car whose run is next
next_adj_qual_time ==
    adj_qual_time_of(qual.runs[qual.car].qual_time, qual.runs[qual.car].qual_dist,
                     track.lap_length)

\* the cars as create_team_car / create_competitors leave them: distance 0,
\* box_location as passed to Car()
QualInit ==
    /\ cfg \in QualConfigs
    /\ cars = [c \in DOMAIN cfg.start_grid |->
                   NewCar(c, cfg.start_grid[c], cfg.grid_offset)]
    /\ positions_dict = [k \in DOMAIN cfg.start_grid |-> k]
    /\ finished_cars = <<>>
    /\ sim_car_df = [c \in DOMAIN cfg.start_grid |->
                         [Finish_Position |-> 0, Finish_Time |-> 0]]
    /\ race_df = <<>>
    /\ race_time = 0
    /\ race_finished = FALSE
    /\ pc = "while"
    /\ i = 0
    /\ mover = 0
    /\ sum_time_increment = 0
    /\ stuck_behind = FALSE
    /\ car_position = 0
    /\ next_corner = -1
    /\ prev_corner = -1
    /\ call = NoCall
    /\ other_call = NoCall
    /\ start_grid_dict = [c \in DOMAIN cfg.start_grid |->
                              NewCar(c, cfg.start_grid[c], cfg.grid_offset)]
    /\ \E runs \in [DOMAIN cfg.start_grid ->
                       [qual_time : QualTimes,
                        qual_dist : {cfg.track.lap_length + d : d \in QualOvershoots}]] :
          qual = [pc |-> "run", runs |-> runs, car |-> 0,
                  adj_qual_time_dict |-> <<>>, qual_time_order |-> <<>>, i |-> 0,
                  start_grid_dict |-> <<>>,
                  distance |-> [c \in DOMAIN cfg.start_grid |-> 0],
                  box_location |-> [c \in DOMAIN cfg.start_grid |-> 1000]]

\* one pass of "for car in car_list": the run, the adjusted time, the entry
\* in adj_qual_time_dict
QualifyingRun ==
    /\ qual.pc = "run"
    /\ qual.car < NumCars
    /\ qual' = [qual EXCEPT !.adj_qual_time_dict =
                                dict_set(@, next_adj_qual_time, qual.car),
                            !.car = @ + 1]
    /\ UNCHANGED <<cfg, start_grid_dict, cars, positions_dict, finished_cars, sim_car_df,
                   race_df, race_time, race_finished, pc, i, mover, sum_time_increment,
                   stuck_behind, car_position, next_corner, prev_corner, call, other_call>>

\* qual_time_order = sorted(list(adj_qual_time_dict.keys())); start_grid_dict = {}
OrderTimes ==
    /\ qual.pc = "run"
    /\ qual.car = NumCars
    /\ qual' = [qual EXCEPT !.qual_time_order = sorted(DOMAIN qual.adj_qual_time_dict),
                            !.pc = "place", !.i = 0]
    /\ UNCHANGED <<cfg, start_grid_dict, cars, positions_dict, finished_cars, sim_car_df,
                   race_df, race_time, race_finished, pc, i, mover, sum_time_increment,
                   stuck_behind, car_position, next_corner, prev_corner, call, other_call>>

\* one pass of "for i in range(len(qual_time_order))"
PlaceCar ==
    /\ qual.pc = "place"
    /\ qual.i < Len(qual.qual_time_order)
    /\ LET car == qual.adj_qual_time_dict[qual.qual_time_order[qual.i + 1]]
       IN  qual' = [qual EXCEPT !.start_grid_dict = dict_set(@, qual.i, car),
                                !.distance[car] = grid_distance(qual.i, cfg.grid_offset),
                                !.box_location[car] = grid_box_location(qual.i),
                                !.i = @ + 1]
    /\ UNCHANGED <<cfg, start_grid_dict, cars, positions_dict, finished_cars, sim_car_df,
                   race_df, race_time, race_finished, pc, i, mover, sum_time_increment,
                   stuck_behind, car_position, next_corner, prev_corner, call, other_call>>

\* return start_grid_dict, car_df
QualifyingReturn ==
    /\ qual.pc = "place"
    /\ qual.i = Len(qual.qual_time_order)
    /\ qual' = [qual EXCEPT !.pc = "done"]
    /\ UNCHANGED <<cfg, start_grid_dict, cars, positions_dict, finished_cars, sim_car_df,
                   race_df, race_time, race_finished, pc, i, mover, sum_time_increment,
                   stuck_behind, car_position, next_corner, prev_corner, call, other_call>>

QualNext ==
    \/ QualifyingRun
    \/ OrderTimes
    \/ PlaceCar
    \/ QualifyingReturn

QualSpec == QualInit /\ [][QualNext]_vars

(***************************************************************************)
(* Claims                                                                  *)
(***************************************************************************)
\* the state reached when the for loop has given every index its turn
EndOfTick == pc = "for" /\ i = NumCars

\* the latest step was a sub-step resolved by overtake()
Resolved == call.kind = "overtake"

\* C1: monotonic progress - the newest telemetry frame of a car is never
\* behind an earlier frame of the same car, and the displacement committed
\* after every overtake() call (on track or in the pit lane) is >= 0.
C1_MonotonicProgress ==
    /\ \A a \in 1 .. Len(race_df) - 1 :
           race_df[a].car = race_df[Len(race_df)].car
               => race_df[a].distance <= race_df[Len(race_df)].distance
    /\ Resolved => cars[call.car].distance_travel >= 0

\* C2: positions_dict is a permutation of the cars in every reachable state
\* (every car at exactly one index), and during a car's turn car_position
\* is the index at which that car is stored.
C2_OrderingIsPermutation ==
    /\ \A c \in car_list : Cardinality({k \in car_list : positions_dict[k] = c}) = 1
    /\ pc = "inner" => positions_dict[car_position] = mover

\* C3: at the end of every macro-tick, of any two unfinished cars the one
\* with the smaller ordering index has the larger or equal distance.
C3_OrderingReflectsTrackOrder ==
    EndOfTick =>
        \A a, b \in car_list :
            (a < b /\ ~IsFinished(positions_dict[a]) /\ ~IsFinished(positions_dict[b]))
                => cars[positions_dict[a]].distance >= cars[positions_dict[b]].distance

\* C4: when race() returns with race_finished set, every car is in
\* finished_cars exactly once, the Finish_Position values are exactly
\* 0 .. N-1, and a car with an earlier Finish_Time never has a larger
\* Finish_Position than a car with a later one.
C4_FinishConservation ==
    (pc = "done" /\ race_finished) =>
        /\ \A c \in car_list :
               Cardinality({k \in 1 .. Len(finished_cars) : finished_cars[k] = c}) = 1
        /\ {sim_car_df[c].Finish_Position : c \in car_list} = 0 .. NumCars - 1
        /\ \A a, b \in car_list :
               sim_car_df[a].Finish_Time < sim_car_df[b].Finish_Time
                   => sim_car_df[a].Finish_Position <= sim_car_df[b].Finish_Position

\* C5: with race_time_limit = False no car is ever shut out of the race:
\* every car that is not yet in finished_cars is stored at some index of the
\* ordering, so the for loop keeps giving it turns until it finishes, and
\* race() returns only when every car is in finished_cars.
C5_NormalTermination ==
    (~cfg.race_time_limit) =>
        /\ \A c \in car_list : IsFinished(c) \/ \E k \in car_list : positions_dict[k] = c
        /\ pc = "done" => \A c \in car_list : IsFinished(c)

\* an unfinished car is held by no ordering index and every index holds a
\* finished car: from here on every turn is skipped
C5_CarShutOut ==
    /\ ~cfg.race_time_limit
    /\ \E c \in car_list : ~IsFinished(c) /\ \A k \in car_list : positions_dict[k] # c
    /\ \A k \in car_list : IsFinished(positions_dict[k])

\* the phase of car c read off its attributes
C6_Phase(c) ==
    IF ~cars[c].in_pit THEN "on_track"
    ELSE IF cars[c].pit_duration < cars[c].box_location THEN "approaching_box"
    ELSE IF cars[c].pit_duration < cars[c].box_location + cfg.start_grid[c].box_time
    THEN "in_box"
    ELSE IF cars[c].pit_duration < track.pit_length + cfg.start_grid[c].box_time
    THEN "leaving_lane"
    ELSE "lane_done"

C6_Order ==
    {<<"on_track", "approaching_box">>, <<"approaching_box", "in_box">>,
     <<"in_box", "leaving_lane">>, <<"leaving_lane", "lane_done">>,
     <<"lane_done", "on_track">>}

\* car c has just crossed the Pit Entry apex on a lap other than its pit lap:
\* the visit it is on is not one on its designated pit lap
C6_OffPitLap(c) ==
    /\ Resolved /\ call.car = c /\ ~call.in_pit
    /\ cars[c].in_pit
    /\ cars[c].lap_count + 1 # cfg.start_grid[c].pit_lap

C7_Ahead == call.positions_dict[call.car_position - 1]

\* that car's attributes as overtake() read them (only the mover's own
\* attributes change during the call)
C7_AheadDistance ==
    IF C7_Ahead = call.car THEN call.distance ELSE cars[C7_Ahead].distance

C7_AheadSpeed ==
    IF C7_Ahead = call.car THEN call.speed ELSE cars[C7_Ahead].speed

C7_AheadInPit ==
    IF C7_Ahead = call.car THEN call.in_pit ELSE cars[C7_Ahead].in_pit

\* the mover's position on its lap when overtake() was called
C7_LapDist == call.distance - track.lap_length * cars[call.car].lap_count

\* the mover's lap position lies inside no corner's zone
C7_OnStraight ==
    \A k \in 0 .. NumCorners - 1 :
        ~(track.corner_list[k].start < C7_LapDist /\ C7_LapDist < track.corner_list[k].end)

\* A = the mover is exactly car_length behind B = the car ahead of it, both
\* are on track and unfinished, A is on a straight and potentially faster
C7_Scenario ==
    /\ Resolved
    /\ call.car_position > 0
    /\ ~call.in_pit
    /\ ~IsFinished(C7_Ahead)
    /\ ~C7_AheadInPit
    /\ call.distance = C7_AheadDistance - car_length
    /\ C7_OnStraight
    /\ call.potential_speed > C7_AheadSpeed

\* C7 as stated: in the scenario A is not blocked and, when the sub-step
\* closes A's turn of the macro-tick, A has been swapped ahead of B.
C7_PassCompletedInTick ==
    (C7_Scenario /\ ~turn_condition) =>
        /\ ~stuck_behind
        /\ positions_dict[call.car_position] = C7_Ahead

\* C7 amended: in the scenario A is never blocked by B; unless a car further
\* ahead blocks it, A receives its full potential displacement and speed,
\* and it is swapped ahead of B in that sub-step exactly when its potential
\* displacement carries it to B's distance or beyond (otherwise A is
\* alongside B and the ordering keeps B ahead).
C7_NotBlockedByCarAhead ==
    C7_Scenario =>
        /\ stuck_behind => call.front # C7_Ahead
        /\ ~stuck_behind =>
               /\ cars[call.car].distance_travel = call.potential_dist
               /\ cars[call.car].speed = call.potential_speed
               /\ positions_dict[call.car_position] = C7_Ahead
                      <=> call.distance + call.potential_dist >= C7_AheadDistance

\* the scenario ended with A swapped ahead of B
C7_PassMade ==
    /\ C7_Scenario
    /\ ~stuck_behind
    /\ positions_dict[call.car_position] = C7_Ahead

\* the requirement overtake() applied to the mover
C8_Requirement == overtake_req_of(C7_LapDist, call.next_corner, call.prev_corner)

\* the mover would close within car_length of the on-track car ahead and
\* meets no overtake threshold
C8_NoThresholdMet ==
    /\ Resolved
    /\ call.car_position > 0
    /\ ~call.in_pit
    /\ ~IsFinished(C7_Ahead)
    /\ ~C7_AheadInPit
    /\ call.distance + call.potential_dist > C7_AheadDistance - car_length
    /\ C8_Requirement # 0
    /\ call.potential_speed - C7_AheadSpeed < C8_Requirement

\* C8: when no threshold is met the mover's displacement is clamped to
\* ahead.distance - mover.distance - car_length, its speed is
\* min(ahead.speed, potential_speed), it is not swapped ahead, and it is
\* marked blocked.
C8_BlockedClamp ==
    C8_NoThresholdMet =>
        /\ cars[call.car].distance_travel
               = C7_AheadDistance - call.distance - car_length
        /\ cars[call.car].speed = Min2(C7_AheadSpeed, call.potential_speed)
        /\ positions_dict[call.car_position - 1] = C7_Ahead
        /\ stuck_behind

\* a blocked mover whose blocker is slower than the mover's potential speed
C8_BlockedBehindSlower ==
    /\ C8_NoThresholdMet
    /\ stuck_behind
    /\ C7_AheadSpeed < call.potential_speed

\* C9: after a resolution of an on-track mover, for every unfinished
\* on-track car ahead of it in the ordering, either the mover is at least
\* car_length behind that car or the mover had a legal contest against it.
C9_Separation ==
    (Resolved /\ ~call.in_pit) =>
        \A k \in car_list :
            (/\ k < car_position
             /\ positions_dict[k] # call.car
             /\ ~IsFinished(positions_dict[k])
             /\ ~cars[positions_dict[k]].in_pit)
                => \/ cars[call.car].distance
                          <= cars[positions_dict[k]].distance - car_length
                   \/ call.potential_speed - cars[positions_dict[k]].speed
                          >= C8_Requirement
                   \/ C8_Requirement = 0

\* C10: in every state each car's tyre_perf is max(1 - tyre_deg^2, 0.25),
\* and every frame's tyre_performance lies in [0.25, 1].
C10_TyrePerfRelation ==
    /\ \A c \in car_list :
           /\ cars[c].tyre_perf
                  = IF cars[c].tyre_deg >= 10000 \/ cars[c].tyre_deg <= -10000
                    THEN 2500
                    ELSE Max2(10000 - (cars[c].tyre_deg * cars[c].tyre_deg) \div 10000, 2500)
           /\ cars[c].tyre_perf >= 2500
           /\ cars[c].tyre_perf <= 10000
    /\ \A a \in 1 .. Len(race_df) :
           /\ race_df[a].tyre_performance >= 2500
           /\ race_df[a].tyre_performance <= 10000

\* a car worn to the floor of the performance curve, recorded in a frame
C10_TyresAtFloor ==
    /\ \E c \in car_list : cars[c].tyre_deg > 10000 /\ cars[c].tyre_perf = 2500
    /\ \E a \in 1 .. Len(race_df) : race_df[a].tyre_performance = 2500

\* C11: tyre state ranges - in every state each car has tyre_wear >= 0 and
\* tyre_deg = tyre_wear / max_tyre_life within [0, 1].
C11_TyreStateRanges ==
    \A c \in car_list :
        /\ cars[c].tyre_wear >= 0
        /\ cars[c].tyre_deg >= 0
        /\ cars[c].tyre_deg <= 10000

\* a car has worn its tyres beyond their nominal life
C11_TyresBeyondLife ==
    \E c \in car_list :
        /\ cars[c].tyre_wear > cfg.start_grid[c].max_tyre_life
        /\ cars[c].tyre_deg > 10000

\* the frames of the running call so far are the first frames of the call
\* that returned before it
C12_SameSoFar ==
    /\ Len(race_df) <= Len(other_call.race_df)
    /\ \A a \in 1 .. Len(race_df) : race_df[a] = other_call.race_df[a]

\* C12: deterministic replay - a race() call made after another call on the
\* same arguments has returned produces, frame for frame, the same
\* telemetry, and returns the same telemetry and finish records, whatever
\* the earlier call left in the module globals.
C12_DeterministicReplay ==
    other_call.kind = "returned" =>
        /\ C12_SameSoFar
        /\ pc = "done" => /\ race_df = other_call.race_df
                          /\ sim_car_df = other_call.sim_car_df

\* a replay of a race with finishers has returned
C12_ReplayReturned ==
    /\ other_call.kind = "returned"
    /\ pc = "done"
    /\ Len(race_df) > 0
    /\ \E c \in car_list : IsFinished(c)

\* C13: the leader is never blocked - after overtake() was called with
\* car_position = 0 the mover's displacement is potential_dist, its speed is
\* potential_speed, stuck_behind is not set and the ordering is as before.
C13_LeaderNeverBlocked ==
    (Resolved /\ call.car_position = 0) =>
        /\ cars[call.car].distance_travel = call.potential_dist
        /\ cars[call.car].speed = call.potential_speed
        /\ ~stuck_behind
        /\ positions_dict = call.positions_dict
        /\ car_position = 0

\* the leader of several unfinished cars has moved
C13_LeaderMoved ==
    /\ Resolved
    /\ call.car_position = 0
    /\ call.potential_dist > 0
    /\ \E c \in car_list : c # call.car /\ ~IsFinished(c)

\* the step is a sub-increment of the mover's turn: time of the macro-tick
\* is used up
C14_SubIncrement ==
    pc = "inner" /\ pc' = "inner" /\ sum_time_increment' # sum_time_increment

\* C14: telemetry completeness - every sub-increment a car executes appends
\* exactly one frame, of that car, at the time reached, and the car is not in
\* finished_cars; every other step (the pit-exit step included) leaves the
\* frames as they are; frames already appended are never removed or
\* reordered.
C14_TelemetryComplete ==
    [][/\ C14_SubIncrement =>
              /\ Len(race_df') = Len(race_df) + 1
              /\ SubSeq(race_df', 1, Len(race_df)) = race_df
              /\ race_df'[Len(race_df')].car = mover
              /\ race_df'[Len(race_df')].race_time = race_time * 1000 + sum_time_increment'
              /\ ~IsFinished(mover)
       /\ ~C14_SubIncrement => race_df' = race_df]_vars

\* the newest frame is that of a car standing in its pit box on new tyres,
\* in a race that already has frames of a later lap
C14_FramesOfAllKinds ==
    /\ pc = "inner"
    /\ Len(race_df) > 0
    /\ race_df[Len(race_df)].car = mover
    /\ race_df[Len(race_df)].speed = 0
    /\ cars[mover].in_pit
    /\ cars[mover].tyre_wear = 0
    /\ call = NoCall
    /\ \E a \in 1 .. Len(race_df) : race_df[a].lap > 0

\* C15: the telemetry trace is time-ordered - the time of a frame is never
\* smaller than the time of the frame before it, and the frames of one car
\* have strictly increasing times.
C15_TimeOrdered ==
    /\ \A a \in 1 .. Len(race_df) - 1 : race_df[a].race_time <= race_df[a + 1].race_time
    /\ \A a, b \in 1 .. Len(race_df) :
           (a < b /\ race_df[a].car = race_df[b].car)
               => race_df[a].race_time < race_df[b].race_time

\* a frame is followed by a frame of another car with a smaller time
C15_EarlierFrameAfterLater ==
    \E a \in 1 .. Len(race_df) - 1 :
        /\ race_df[a].race_time > race_df[a + 1].race_time
        /\ race_df[a].car # race_df[a + 1].car

\* C16: time-limit truncation - with race_time_limit = True the clock never
\* passes the limit of 90, no macro-tick is under way once the limit is
\* reached, and when race() has returned every car that has not finished has
\* Finish_Position = 0 and Finish_Time = 0, a record no finished car has.
C16_TimeLimitTruncation ==
    cfg.race_time_limit =>
        /\ race_time <= TimeLimit
        /\ pc \in {"for", "inner"} => race_time < TimeLimit
        /\ pc = "done" =>
               \A c \in car_list :
                   ~IsFinished(c) =>
                       /\ sim_car_df[c] = [Finish_Position |-> 0, Finish_Time |-> 0]
                       /\ \A d \in car_list : IsFinished(d) => sim_car_df[d] # sim_car_df[c]

\* race() has returned at the limit with a finisher in position 0 and a car
\* still on the track
C16_TruncatedWithFinisher ==
    /\ cfg.race_time_limit
    /\ pc = "done"
    /\ race_time = TimeLimit
    /\ ~race_finished
    /\ \E c, d \in car_list :
           /\ ~IsFinished(c)
           /\ IsFinished(d)
           /\ sim_car_df[d].Finish_Position = 0

\* C17: degenerate configuration rejected at construction - race() is only
\* entered with cars whose max_accel and max_speed are positive, whose
\* max_brake is negative and whose max_tyre_life is not zero, on a track whose
\* corners all have start <= apex <= end.
C17_DegenerateCar(d) ==
    \/ d.max_accel <= 0
    \/ d.max_brake >= 0
    \/ d.max_speed <= 0
    \/ d.max_tyre_life = 0

C17_DegenerateCorner(k) == ~(k.start <= k.apex /\ k.apex <= k.end)

C17_Degenerate ==
    \/ \E c \in DOMAIN cfg.start_grid : C17_DegenerateCar(cfg.start_grid[c])
    \/ \E k \in DOMAIN cfg.track.corner_list : C17_DegenerateCorner(cfg.track.corner_list[k])

C17_DegenerateRejected == pc # "construct" => ~C17_Degenerate

\* a race on the track with the misordered corner has been run to its end
C17_DegenerateRaceRun ==
    /\ C17_Degenerate
    /\ pc = "done"
    /\ race_finished
    /\ Len(race_df) > 0

\* C18: independent runs share no mutable state - a race() call that was
\* interleaved with another call on its own cars returns the telemetry and
\* the finish records it returns when run alone (the other call, made with the
\* same arguments and run without interruption, returned those).
C18_InterleavedSameAsAlone ==
    (pc = "done" /\ other_call.kind = "interleaved") =>
        /\ race_df = other_call.race_df
        /\ sim_car_df = other_call.sim_car_df

\* the interrupted call has returned with less telemetry than the call that
\* ran in between
C18_InterleavedCutShort ==
    /\ pc = "done"
    /\ other_call.kind = "interleaved"
    /\ Len(race_df) < Len(other_call.race_df)
    /\ \A c \in car_list : sim_car_df[c] = [Finish_Position |-> 0, Finish_Time |-> 0]

\* C19: macro-tick length follows time_period - every step that moves the
\* race clock moves it by time_period, and the sub-increments of one car's
\* turn never sum to more than time_period.
C19_TickFollowsTimePeriod ==
    [][/\ race_time' # race_time =>
              race_time' * 1000 = race_time * 1000 + cfg.time_period
       /\ sum_time_increment' <= cfg.time_period]_vars

\* with time_period = 0.5 a car's turn has covered a whole second and the
\* clock has been moved on
C19_TurnLongerThanPeriod ==
    /\ cfg.time_period = 500
    /\ sum_time_increment = 1000
    /\ race_time >= 1

\* C20: every unfinished car gets exactly one turn per macro-tick - a car
\* that starts a turn has no telemetry frame of the current macro-tick yet
\* (not processed twice), and when the for loop has gone through every index
\* each car that has not finished has a frame of this macro-tick (not
\* skipped).
C20_FramesThisTick(c) ==
    {a \in 1 .. Len(race_df) :
         race_df[a].car = c /\ race_df[a].race_time > race_time * 1000}

C20_OneTurnPerTick ==
    /\ (pc = "inner" /\ sum_time_increment = 0) => C20_FramesThisTick(mover) = {}
    /\ EndOfTick => \A c \in car_list : ~IsFinished(c) => C20_FramesThisTick(c) # {}

\* a car starts a second turn in a macro-tick in which the ordering changed
C20_SecondTurn ==
    /\ pc = "inner"
    /\ sum_time_increment = 0
    /\ C20_FramesThisTick(mover) # {}

\* a non-leading mover whose potential displacement leaves it car_length
\* behind the car immediately ahead, or whose car immediately ahead has
\* finished the race
C21_Unobstructed ==
    /\ Resolved
    /\ call.car_position > 0
    /\ \/ call.distance + call.potential_dist <= C7_AheadDistance - car_length
       \/ IsFinished(C7_Ahead)

\* C21: unobstructed movement - such a mover receives exactly potential_dist
\* and potential_speed, the scan stops at the car immediately ahead, the
\* ordering and the mover's index are unchanged and the mover is not marked
\* blocked.
C21_UnobstructedMovement ==
    C21_Unobstructed =>
        /\ cars[call.car].distance_travel = call.potential_dist
        /\ cars[call.car].speed = call.potential_speed
        /\ call.front_index = call.car_position - 1
        /\ call.branch \in {"clear", "finished"}
        /\ positions_dict = call.positions_dict
        /\ car_position = call.car_position
        /\ ~stuck_behind

\* a mover has driven up to within car_length of a car that has finished
C21_ReachedFinishedCar ==
    /\ C21_Unobstructed
    /\ IsFinished(C7_Ahead)
    /\ call.distance + call.potential_dist > C7_AheadDistance - car_length

\* the car immediately ahead of a non-leading mover is in the pit, has not
\* finished and is within reach of the mover's potential displacement
C22_AheadInPitWithinReach ==
    /\ Resolved
    /\ call.car_position > 0
    /\ call.distance + call.potential_dist > C7_AheadDistance - car_length
    /\ ~IsFinished(C7_Ahead)
    /\ C7_AheadInPit

\* the mover is on track and its next corner is not Pit Entry
C22_MoverStaysOut ==
    ~call.in_pit /\ track.corner_list[call.next_corner].name # "Pit Entry"

\* C22 as stated: pit-lane contests against the car immediately ahead - (a) a mover on
\* track whose next corner is not Pit Entry and (b) a mover in or entering
\* the pit lane behind a car with speed 0 receive their potential displacement
\* and speed, and are swapped ahead exactly when the resulting distance exceeds
\* the distance of the car ahead; (c) any other mover is clamped to
\* ahead.distance - mover.distance - car_length at
\* min(ahead.speed, potential_speed) and marked blocked.
C22_PitLaneContest ==
    C22_AheadInPitWithinReach =>
        IF C22_MoverStaysOut \/ C7_AheadSpeed = 0
        THEN /\ cars[call.car].distance_travel = call.potential_dist
             /\ cars[call.car].speed = call.potential_speed
             /\ positions_dict[call.car_position] = C7_Ahead
                    <=> call.distance + call.potential_dist > C7_AheadDistance
        ELSE /\ cars[call.car].distance_travel
                    = C7_AheadDistance - call.distance - car_length
             /\ cars[call.car].speed = Min2(C7_AheadSpeed, call.potential_speed)
             /\ stuck_behind

\* C22 amended: in (a) and (b) the car immediately ahead never blocks the
\* mover: unless a car further ahead blocks it, the mover receives its
\* potential displacement and speed and is swapped ahead of the pit car
\* exactly when its resulting distance exceeds that car's distance; (c) is as
\* stated.
C22_PitLaneContestUnlessBlockedAhead ==
    C22_AheadInPitWithinReach =>
        IF C22_MoverStaysOut \/ C7_AheadSpeed = 0
        THEN /\ stuck_behind => call.front # C7_Ahead
             /\ ~stuck_behind =>
                    /\ cars[call.car].distance_travel = call.potential_dist
                    /\ cars[call.car].speed = call.potential_speed
                    /\ positions_dict[call.car_position] = C7_Ahead
                           <=> call.distance + call.potential_dist > C7_AheadDistance
        ELSE /\ cars[call.car].distance_travel
                    = C7_AheadDistance - call.distance - car_length
             /\ cars[call.car].speed = Min2(C7_AheadSpeed, call.potential_speed)
             /\ stuck_behind

\* an on-track mover has been swapped ahead of a car in the pit lane
C22_PassedPitCar ==
    /\ C22_AheadInPitWithinReach
    /\ C22_MoverStaysOut
    /\ ~stuck_behind
    /\ positions_dict[call.car_position] = C7_Ahead

\* the car immediately ahead of a non-leading mover is on track, unfinished
\* and within reach, and the speed condition holds against it
C23_LegalContest ==
    /\ Resolved
    /\ call.car_position > 0
    /\ call.distance + call.potential_dist > C7_AheadDistance - car_length
    /\ ~IsFinished(C7_Ahead)
    /\ ~C7_AheadInPit
    /\ legal_contest(call.potential_speed, C7_AheadSpeed, C8_Requirement)

\* C23: legal pass versus alongside - in a legal contest the mover (unless a
\* car further ahead has clamped it in the same scan) receives its potential
\* displacement and speed; it is swapped ahead of the car ahead if and only
\* if its resulting distance is >= ahead.distance, and the ordering is left
\* unchanged when the resulting distance is still less than ahead.distance.
C23_LegalPassOrAlongside ==
    (C23_LegalContest /\ ~stuck_behind) =>
        /\ cars[call.car].distance_travel = call.potential_dist
        /\ cars[call.car].speed = call.potential_speed
        /\ positions_dict[call.car_position] = C7_Ahead
               <=> call.distance + call.potential_dist >= C7_AheadDistance
        /\ call.distance + call.potential_dist < C7_AheadDistance
               => positions_dict = call.positions_dict

\* a mover that is merely alongside the car ahead, and the ordering has
\* changed all the same
C23_AlongsideReordered ==
    /\ C23_LegalContest
    /\ ~stuck_behind
    /\ call.distance + call.potential_dist < C7_AheadDistance
    /\ positions_dict # call.positions_dict

\* the call contested an on-track car: the car immediately ahead, or the
\* last car the scan examined
C24_ContestsOnTrackCar ==
    /\ Resolved
    /\ call.car_position > 0
    /\ \/ call.branch \in {"alongside", "pass", "block"}
       \/ /\ call.distance + call.potential_dist > C7_AheadDistance - car_length
          /\ ~IsFinished(C7_Ahead)
          /\ ~C7_AheadInPit

\* the requirement of the mover's own corners: car.next_corner as it was when
\* overtake() was called, and the corner before it
C24_OwnRequirement ==
    overtake_req_of(C7_LapDist, call.own_corner, prev_corner_of(call.own_corner))

\* C24: overtake requirement selection - in every overtake() call that
\* contests an on-track car, by a mover on track or in the pit lane, the
\* requirement used is the one selected from the mover's own previous and
\* next corner (previous corner's if the lap distance is strictly inside its
\* zone, else next corner's if inside its zone, else 0).
C24_RequirementOfOwnCorners ==
    C24_ContestsOnTrackCar => C8_Requirement = C24_OwnRequirement

\* a pit-lane mover is blocked by an on-track car under a requirement that
\* its own corners do not give
C24_PitMoverHeldByOtherCorner ==
    /\ C24_ContestsOnTrackCar
    /\ call.in_pit
    /\ call.next_corner # call.own_corner
    /\ C8_Requirement # C24_OwnRequirement
    /\ call.branch = "block"
    /\ stuck_behind

\* C25: blocked ends the turn - once the mover is marked blocked no further
\* sub-increment is executed in its turn, the flag is cleared whenever a turn
\* begins, and the car that was blocked in this macro-tick is not given
\* another turn in the same macro-tick.
C25_BlockedEndsTurn ==
    [][/\ (pc = "inner" /\ stuck_behind) =>
              (sum_time_increment' = sum_time_increment /\ race_df' = race_df)
       /\ (pc = "for" /\ pc' = "inner") => ~stuck_behind'
       /\ (pc = "for" /\ pc' = "inner" /\ stuck_behind /\ C20_FramesThisTick(mover) # {})
              => mover' # mover]_vars

\* the car that was blocked in this macro-tick stands at the index the for
\* loop is about to process
C25_BlockedCarNextInLine ==
    /\ pc = "for"
    /\ i < NumCars
    /\ stuck_behind
    /\ C20_FramesThisTick(mover) # {}
    /\ positions_dict[i] = mover
    /\ ~IsFinished(mover)

\* the mover was blocked by an on-track car
C26_BlockedOnTrack == Resolved /\ call.branch = "block"

\* C26: cascading repass - after a mover was blocked by an on-track car and
\* the resolver has handed its place back to the trailing cars that are
\* further along, the mover stands at car_position and no car behind it in
\* the ordering has a distance greater than the mover's new distance.
C26_CascadingRepass ==
    C26_BlockedOnTrack =>
        /\ positions_dict[car_position] = call.car
        /\ \A k \in car_position + 1 .. NumCars - 1 :
               cars[positions_dict[k]].distance <= cars[call.car].distance

\* a blocked mover is left ahead, in the ordering, of a car that is further
\* along the track
C26_TrailingCarFurtherAlong ==
    /\ C26_BlockedOnTrack
    /\ car_position + 1 < NumCars
    /\ positions_dict[car_position + 1] # call.car
    /\ cars[positions_dict[car_position + 1]].distance > cars[call.car].distance

\* the time car c has spent in sub-increments of the current macro-tick,
\* summed over its telemetry frames from index a on; last is the time of its
\* previous frame (a frame that is not later than the previous one opens
\* another turn, which is counted from the start of the macro-tick)
RECURSIVE C27_TimeInTick(_, _, _)
C27_TimeInTick(c, a, last) ==
    IF a > Len(race_df) THEN 0
    ELSE IF race_df[a].car = c /\ race_df[a].race_time > race_time * 1000
         THEN (race_df[a].race_time
                   - (IF last < race_df[a].race_time THEN last ELSE race_time * 1000))
              + C27_TimeInTick(c, a + 1, race_df[a].race_time)
         ELSE C27_TimeInTick(c, a + 1, last)

\* C27: sub-increment bounds - every sub-increment has a duration t with
\* 0.005 <= t <= 1 that is at most the budget left (1 - sum_time_increment);
\* per car and macro-tick the durations sum to at most 1 time unit and there
\* are at most 200 sub-increments; the inner loop is left only when the sum
\* has reached the period (to 0.01) or the car is blocked.
C27_SubIncrementBounds ==
    [][/\ sum_time_increment' # sum_time_increment /\ pc = "inner" /\ pc' = "inner" =>
              /\ sum_time_increment' - sum_time_increment >= MinIncrement
              /\ sum_time_increment' - sum_time_increment <= 1000
              /\ sum_time_increment' <= 1000
       /\ \A c \in car_list :
              /\ C27_TimeInTick(c, 1, race_time * 1000)' <= 1000
              /\ Cardinality(C20_FramesThisTick(c))' <= 200
       /\ (pc = "inner" /\ pc' = "for") =>
              (stuck_behind \/ RoundTo(sum_time_increment, 10) >= cfg.time_period)]_vars

\* a car has spent more than one time unit in sub-increments of one
\* macro-tick
C27_MoreThanOneTimeUnit ==
    \E c \in car_list : C27_TimeInTick(c, 1, race_time * 1000) > 1000

\* an on-track sub-increment of car c whose committed displacement reaches
\* the apex of the Pit Entry corner
C28_CrossesPitEntry(c) ==
    /\ pc = "inner" /\ mover = c /\ ~cars[c].in_pit
    /\ Len(race_df') = Len(race_df) + 1
    /\ track.corner_list[cars[c].next_corner].name = "Pit Entry"
    /\ RoundTo(cars'[c].distance_travel, 10) >= RoundTo(apex_dist(c), 10)

\* C28: pit entry - whenever a car's committed displacement reaches the apex
\* of the Pit Entry corner the car is in the pit with pit_duration 0, so the
\* visit starts in the approaching_box phase.
C28_PitEntry ==
    [][\A c \in car_list :
           C28_CrossesPitEntry(c) =>
               /\ cars'[c].in_pit
               /\ cars'[c].pit_duration = 0
               /\ cars'[c].pit_duration < cars'[c].box_location]_vars

\* a car has just crossed the Pit Entry apex and is in the pit with the whole
\* of a pit stop already on its pit_duration: the visit starts in the exit
\* phase
C28_VisitStartsInExitPhase ==
    /\ Resolved /\ ~call.in_pit
    /\ track.corner_list[call.own_corner].name = "Pit Entry"
    /\ cars[call.car].in_pit
    /\ cars[call.car].pit_duration
           >= track.pit_length + cfg.start_grid[call.car].box_time

\* car c is on the lap on which it is due to pit
C29_OnPitLap(c) == cars[c].lap_count + 1 = cfg.start_grid[c].pit_lap

\* while car c is on the track, Pit Entry is its next corner on its pit lap
\* only
C29_PitEntryOnlyOnPitLap ==
    \A c \in car_list :
        (~cars[c].in_pit /\ track.corner_list[cars[c].next_corner].name = "Pit Entry")
            => C29_OnPitLap(c)

\* C29: pit only on the designated lap - in_pit becomes True only in a
\* sub-increment that crosses the Pit Entry apex while completed laps + 1 =
\* pit_lap; on every other lap Pit Entry is never the car's next corner; and
\* a car enters the pit at most once per race (it has spent no time in the pit
\* lane when it enters).
C29_PitOnlyOnDesignatedLap ==
    [][/\ \A c \in car_list :
              (~cars[c].in_pit /\ cars'[c].in_pit) =>
                  /\ C28_CrossesPitEntry(c)
                  /\ C29_OnPitLap(c)
                  /\ cars[c].pit_duration = 0
       /\ C29_PitEntryOnlyOnPitLap /\ C29_PitEntryOnlyOnPitLap']_vars

\* a car has just crossed the Pit Entry apex on a lap other than its pit lap
\* and is in the pit
C29_EnteredPitOnOtherLap ==
    /\ Resolved /\ ~call.in_pit
    /\ track.corner_list[call.own_corner].name = "Pit Entry"
    /\ cars[call.car].in_pit
    /\ cars[call.car].lap_count + 1 # cfg.start_grid[call.car].pit_lap

\* an on-track sub-increment of car c whose committed displacement reaches
\* the remaining apex distance, both rounded to 2 decimals
C30_ReachesApex(c) ==
    /\ pc = "inner" /\ mover = c /\ ~cars[c].in_pit
    /\ Len(race_df') = Len(race_df) + 1
    /\ RoundTo(cars'[c].distance_travel, 10) >= RoundTo(apex_dist(c), 10)

\* the corner one ahead of car c's next corner, or two ahead when the corner
\* one ahead is Pit Entry and the car is not due to pit
C30_Successor(c) ==
    LET one == (cars[c].next_corner + 1) % NumCorners
    IN  IF track.corner_list[one].name = "Pit Entry"
           /\ cars[c].lap_count + 1 # cfg.start_grid[c].pit_lap
        THEN (one + 1) % NumCorners
        ELSE one

\* C30: corner pointer advance - next_corner changes only in a sub-increment
\* whose committed displacement is >= the remaining apex distance (both
\* rounded to 2 decimals), and then becomes the corner one ahead, or two ahead
\* when the corner one ahead is Pit Entry and the car is not due to pit; in
\* every other step (blocked sub-increments short of the apex, pit-lane steps)
\* it is unchanged; and no step takes a car beyond the apex of its next corner
\* without the pointer advancing.
C30_CornerPointerAdvance ==
    [][\A c \in car_list :
           /\ C30_ReachesApex(c) => cars'[c].next_corner = C30_Successor(c)
           /\ ~C30_ReachesApex(c) => cars'[c].next_corner = cars[c].next_corner
           /\ (apex_dist(c) >= 0 /\ cars'[c].distance > cars[c].distance + apex_dist(c))
                  => C30_ReachesApex(c)]_vars

\* a pit-lane step has taken a car beyond the apex of its next corner and the
\* pointer is as it was
C30_ApexPassedInPitLane ==
    /\ Resolved /\ call.in_pit
    /\ LET c == call.car
           a == track.corner_list[call.own_corner].apex
                    + track.lap_length * cars[c].lap_count - call.distance
           d == IF a < 0 THEN a + track.lap_length ELSE a
       IN  /\ d >= 0
           /\ cars[c].distance > call.distance + d
           /\ cars[c].next_corner = call.own_corner

\* a sub-increment of car c spent in its pit box
C31_InBoxStep(c) ==
    /\ pc = "inner" /\ mover = c
    /\ C6_Phase(c) = "in_box"
    /\ Len(race_df') = Len(race_df) + 1

\* C31: pit box dwell frame - every in_box sub-increment leaves the car's
\* distance, lap_count, next_corner and the position ordering unchanged, sets
\* speed to 0 and resets tyre_wear and tyre_deg to 0 and tyre_perf to 1; only
\* pit_duration and the accumulated sub-increment time advance, by the same
\* amount, and the other cars are as they were.
C31_BoxDwellFrame ==
    [][\A c \in car_list :
           C31_InBoxStep(c) =>
               /\ cars'[c].distance = cars[c].distance
               /\ cars'[c].lap_count = cars[c].lap_count
               /\ cars'[c].next_corner = cars[c].next_corner
               /\ cars'[c].in_pit
               /\ positions_dict' = positions_dict
               /\ cars'[c].speed = 0
               /\ cars'[c].tyre_wear = 0 /\ cars'[c].tyre_deg = 0
               /\ cars'[c].tyre_perf = fresh_tyre_perf
               /\ cars'[c].pit_duration > cars[c].pit_duration
               /\ cars'[c].pit_duration - cars[c].pit_duration
                      = sum_time_increment' - sum_time_increment
               /\ \A d \in car_list \ {c} : cars'[d] = cars[d]
               /\ finished_cars' = finished_cars /\ race_time' = race_time]_vars

\* a car that came in on worn tyres stands in its box on fresh ones
C31_StandingInBox ==
    \E c \in car_list :
        /\ cars[c].in_pit /\ C6_Phase(c) = "in_box"
        /\ cars[c].pit_duration > cars[c].box_location
        /\ cars[c].speed = 0 /\ cars[c].tyre_wear = 0
        /\ cars[c].distance > 0
        /\ Len(race_df) > 0 /\ race_df[Len(race_df)].car = c
        /\ race_df[Len(race_df)].tyre_wear = 0

\* a sub-increment of car c in the pit lane (approaching its box, in the box
\* or leaving the lane)
C32_PitStep(c) ==
    /\ pc = "inner" /\ mover = c /\ cars[c].in_pit
    /\ Len(race_df') = Len(race_df) + 1

\* 0 < box_location <= pit_length and box_time > 0
C32_BoxInLane(c) ==
    /\ cars[c].box_location > 0 /\ cars[c].box_location <= track.pit_length
    /\ cfg.start_grid[c].box_time > 0

\* C32: pit visit duration - pit_duration increases by exactly the
\* sub-increment duration in every pit sub-step and is never modified outside
\* the pit; it counts from 0 at the sub-step that sets in_pit True and is
\* pit_length + box_time (within 0.005 per phase) at the step that sets in_pit
\* False; a pit-lane turn in which the car is not blocked uses its whole
\* macro-tick, so the simulated time of an unblocked visit is that
\* pit_duration, and a blocked pit sub-step loses part of its macro-tick, so
\* that a blocked visit takes strictly longer.
C32_PitVisitDuration ==
    [][\A c \in car_list :
           /\ C32_PitStep(c) =>
                  /\ cars'[c].pit_duration > cars[c].pit_duration
                  /\ cars'[c].pit_duration - cars[c].pit_duration
                         = sum_time_increment' - sum_time_increment
           /\ cars'[c].pit_duration # cars[c].pit_duration => C32_PitStep(c)
           /\ (~cars[c].in_pit /\ cars'[c].in_pit) => cars'[c].pit_duration = 0
           /\ (C32_BoxInLane(c) /\ cars[c].in_pit /\ ~cars'[c].in_pit) =>
                  /\ cars[c].pit_duration
                         >= track.pit_length + cfg.start_grid[c].box_time
                  /\ cars[c].pit_duration
                         <= track.pit_length + cfg.start_grid[c].box_time + 3 * MinIncrement
           /\ (pc = "inner" /\ pc' = "for" /\ mover = c /\ cars[c].in_pit /\ ~stuck_behind)
                  => sum_time_increment >= 1000 - MinIncrement
           /\ (C32_PitStep(c) /\ stuck_behind') => sum_time_increment' < 1000]_vars

\* a car has been blocked in the pit lane in a sub-increment that used up its
\* macro-tick: it is held up and loses no time
C32_BlockedWithoutDelay ==
    /\ Resolved /\ call.in_pit /\ call.branch = "pit_block"
    /\ cars[call.car].in_pit
    /\ stuck_behind
    /\ cars[call.car].distance_travel < call.potential_dist
    /\ sum_time_increment >= 1000

\* the box of some car of the start grid lies beyond the end of the pit lane
C33_BoxBeyondLane ==
    \E c \in DOMAIN cfg.start_grid : grid_box_location(c) > cfg.track.pit_length

\* C33: an unreachable pit box is reported at setup - race() is not entered
\* with a car whose box_location is greater than pit_length; mid-run no car
\* dwells in a box that it reached at a pit_duration beyond pit_length, and no
\* car leaves the pits without having spent time in the leaving_lane phase.
C33_UnreachableBoxReported ==
    [][/\ pc' # "construct" => ~C33_BoxBeyondLane
       /\ pc # "construct" =>
              \A c \in car_list :
                  /\ C31_InBoxStep(c) => cars[c].box_location <= track.pit_length
                  /\ (cars[c].in_pit /\ ~cars'[c].in_pit /\ ~C6_OffPitLap(c)) =>
                         cars[c].pit_duration
                             > cars[c].box_location + cfg.start_grid[c].box_time]_vars

\* a car whose box lies beyond the pit lane has stood in it and is back on
\* the track without a leaving_lane step
C33_LeftPitsFromBox ==
    /\ pc # "construct"
    /\ \E c \in car_list :
           /\ cars[c].box_location > track.pit_length
           /\ ~cars[c].in_pit
           /\ cars[c].pit_duration = cars[c].box_location + cfg.start_grid[c].box_time
           /\ cars[c].tyre_wear = 0

\* an on-track sub-increment of car c
C34_TrackStep(c) ==
    /\ pc = "inner" /\ mover = c /\ ~cars[c].in_pit
    /\ Len(race_df') = Len(race_df) + 1

\* C34: wear accounting - every on-track sub-increment adds to tyre_wear the
\* displacement committed before it plus the cornering penalty, times the
\* fuel effect, and leaves a penalty only if it crosses an apex; no other
\* step changes tyre_wear except the reset in the pit box; and outside the
\* box a displacement or penalty that has not been added yet is kept until
\* the tyre update that adds it (never dropped, never counted twice).
C34_WearAccounting ==
    [][\A c \in car_list :
           /\ C34_TrackStep(c) =>
                  /\ cars'[c].tyre_wear
                         = calc_tyre_perf(cars[c], cfg.start_grid[c].max_tyre_life,
                                          max_fuel_effect, race_distance).tyre_wear
                  /\ cars'[c].tyre_corner_penalty = 0 \/ C30_ReachesApex(c)
           /\ ~C34_TrackStep(c) =>
                  \/ cars'[c].tyre_wear = cars[c].tyre_wear
                  \/ C31_InBoxStep(c) /\ cars'[c].tyre_wear = 0
           /\ (~C34_TrackStep(c) /\ ~C31_InBoxStep(c)) =>
                  /\ cars'[c].distance_travel = cars[c].distance_travel
                  /\ cars'[c].tyre_corner_penalty = cars[c].tyre_corner_penalty]_vars

\* the first on-track frame of a car after its pit stop follows a pit-lane
\* frame on unworn tyres and shows wear: the last pit-lane displacement has
\* been added
C34_LaneTravelWornOnTrack ==
    \E c \in car_list :
        /\ ~cars[c].in_pit /\ cars[c].pit_duration > 0
        /\ Len(race_df) >= 2
        /\ race_df[Len(race_df)].car = c /\ race_df[Len(race_df) - 1].car = c
        /\ race_df[Len(race_df) - 1].tyre_wear = 0
        /\ race_df[Len(race_df) - 1].speed = track.pit_speed_limit
        /\ race_df[Len(race_df)].tyre_wear > 0

(***************************************************************************)
(* C35: a solver that finds no root                                        *)
(***************************************************************************)
\* brentq raises in solve_brake_time_func: f(0) and f(1) have the same sign
C35_BrakeNoRoot(c) ==
    /\ RoundTo(dist_delta(c), 100) <= 0
    /\ SameSign(-apex_dist(c), cars[c].speed + prepared(c).brake \div 2 - apex_dist(c))

\* brentq raises in solve_accel_brake_time_func
C35_AccelNoRoot(c) ==
    /\ RoundTo(dist_delta(c), 100) > 0
    /\ cars[c].speed < cfg.start_grid[c].max_speed
    /\ LET target == (dist_delta(c) * (-prepared(c).brake))
                        \div (-prepared(c).brake + prepared(c).accel)
       IN  SameSign(-dist_delta(c), cars[c].speed + prepared(c).accel \div 2 - target)

\* C35: root-finding failure is non-fatal - when the solver of the brake or
\* of the accelerate-then-brake duration finds no root in [0, 1], the
\* sub-increment is still made (a frame is appended and the race goes on),
\* the solver counts as 1 in the min with the other candidates, and the
\* sub-increment is at most the remaining budget 1 - sum_time_increment and
\* at least 0.005.
C35_SolverFailureNonFatal ==
    [][\A c \in car_list :
          (pc = "inner" /\ mover = c /\ turn_condition /\ ~cars[c].in_pit
             /\ (C35_BrakeNoRoot(c) \/ C35_AccelNoRoot(c)))
          => LET t == sum_time_increment' - sum_time_increment
             IN  /\ C34_TrackStep(c)
                 /\ pc' = "inner"
                 /\ t >= MinIncrement
                 /\ t <= 1000 - sum_time_increment
                 /\ C35_BrakeNoRoot(c)
                      => t = Max2(MinIncrement,
                                  Min3(((cars[c].speed - car_apex_speed(c)) * 1000)
                                          \div (-prepared(c).brake),
                                       1000, 1000 - sum_time_increment))
                 /\ C35_AccelNoRoot(c)
                      => t = Max2(MinIncrement,
                                  Min3(((cfg.start_grid[c].max_speed - cars[c].speed) * 1000)
                                          \div prepared(c).accel,
                                       1000, 1000 - sum_time_increment))]_vars

\* a braking sub-increment has just been made although the apex was further
\* away than one second of braking covers (no root in [0, 1]), and it was
\* not the first sub-increment of the turn
C35_BrakedWithoutRoot ==
    /\ Resolved /\ ~call.in_pit /\ pc = "inner"
    /\ call.potential_speed < call.speed
    /\ sum_time_increment < 1000
    /\ Cardinality(C20_FramesThisTick(call.car)) >= 2
    /\ LET c == call.car
           a == track.corner_list[call.next_corner].apex
                  + track.lap_length * cars[c].lap_count - call.distance
           d == IF a < 0 THEN a + track.lap_length ELSE a
       IN  SameSign(-d, call.speed + cars[c].brake \div 2 - d)

(***************************************************************************)
(* C36: speed bounds                                                       *)
(***************************************************************************)
\* C36: speed bounds - every car's speed is >= 0; a car on track (not in the
\* pit lane) is at most as fast as its max_speed, provided pit_speed_limit <=
\* max_speed; a blocked mover gets min(ahead.speed, potential_speed), and no
\* resolution leaves the mover faster than its potential speed.
C36_SpeedBounds ==
    /\ \A c \in car_list :
          /\ cars[c].speed >= 0
          /\ (~cars[c].in_pit /\ track.pit_speed_limit <= cfg.start_grid[c].max_speed)
                => cars[c].speed <= cfg.start_grid[c].max_speed
    /\ Resolved =>
          /\ cars[call.car].speed <= call.potential_speed
          /\ call.branch \in {"block", "pit_block"}
                => cars[call.car].speed
                      = Min2(cars[call.front].speed, call.potential_speed)

\* an on-track mover has just been blocked by a slower car and runs at that
\* car's speed, below its own potential speed and below its max_speed
C36_SlowedToCarAhead ==
    /\ Resolved /\ ~call.in_pit /\ call.branch = "block"
    /\ cars[call.car].speed = cars[call.front].speed
    /\ cars[call.car].speed > 0
    /\ cars[call.car].speed < call.potential_speed
    /\ call.potential_speed <= cfg.start_grid[call.car].max_speed

(***************************************************************************)
(* C37: finished cars                                                      *)
(***************************************************************************)
\* the indices of car c in the position ordering
C37_Places(c) == {k \in DOMAIN positions_dict : positions_dict[k] = c}

C38_PositionCurrent ==
    [][Len(race_df') = Len(race_df) + 1 =>
          LET frame == race_df'[Len(race_df')]
          IN  positions_dict'[frame.position] = frame.car]_vars

\* the newest frame is of a mover that has just taken the place of the car
\* ahead, and the frame carries the index the mover had before the pass
C38_FrameWithOldPosition ==
    /\ Resolved /\ call.branch = "pass"
    /\ Len(race_df) > 0
    /\ race_df[Len(race_df)].car = call.car
    /\ positions_dict[car_position] = call.car
    /\ car_position < call.car_position
    /\ race_df[Len(race_df)].position = call.car_position
    /\ positions_dict[call.car_position] # call.car

(***************************************************************************)
(* C39: the cars handed to race()                                          *)
(***************************************************************************)
\* the attributes of a Car object that a run works on
C39_State(car) ==
    <<car.distance, car.speed, car.lap_count, car.tyre_wear, car.tyre_deg, car.tyre_perf,
      car.in_pit, car.pit_duration, car.next_corner>>

\* C39: race() does not mutate the cars of its input - during and after a
\* call the Car objects of start_grid_dict have the distance, speed,
\* lap_count, tyre state, in_pit, pit_duration and next_corner they had
\* before the call, so a call that follows an earlier run on the same cars
\* starts from that state.
C39_InputCarsUntouched ==
    /\ \A c \in car_list :
          C39_State(start_grid_dict[c])
             = C39_State(NewCar(c, cfg.start_grid[c], cfg.grid_offset))
    /\ (other_call.kind = "returned" /\ pc = "while" /\ race_df = <<>>)
          => \A c \in car_list :
                C39_State(cars[c]) = C39_State(NewCar(c, cfg.start_grid[c], cfg.grid_offset))

\* a second call on the same cars has returned as well: its copy of a car
\* has run further than a lap on worn tyres, and the car that was handed in
\* still stands on the grid on fresh tyres
C39_CopyRanCarStayed ==
    /\ pc = "done" /\ other_call.kind = "returned"
    /\ \E c \in car_list :
          /\ cars[c].distance > track.lap_length
          /\ cars[c].tyre_wear > 0
          /\ start_grid_dict[c].distance = grid_distance(c, cfg.grid_offset)
          /\ start_grid_dict[c].tyre_wear = 0
          /\ start_grid_dict[c].speed = 0

(***************************************************************************)
(* C40: the starting grid                                                  *)
(***************************************************************************)
\* the adjusted qualifying time of car c
C40_AdjTime(c) ==
    adj_qual_time_of(qual.runs[c].qual_time, qual.runs[c].qual_dist, track.lap_length)

\* C40: the starting grid is a ranking of all cars - the grid qualifying()
\* returns maps 0..N-1 one-to-one onto the N cars of car_list, in the order
\* of non-decreasing adjusted qualifying time, also when adjusted times are
\* equal, and the car at rank i has distance -i * grid_offset and
\* box_location (i + 2) / 2.
C40_GridIsRanking ==
    qual.pc = "done" =>
        /\ DOMAIN qual.start_grid_dict = 0 .. NumCars - 1
        /\ {qual.start_grid_dict[k] : k \in DOMAIN qual.start_grid_dict} = car_list
        /\ \A a, b \in DOMAIN qual.start_grid_dict :
              a < b => C40_AdjTime(qual.start_grid_dict[a])
                          <= C40_AdjTime(qual.start_grid_dict[b])
        /\ \A k \in DOMAIN qual.start_grid_dict :
              /\ qual.distance[qual.start_grid_dict[k]] = -k * cfg.grid_offset
              /\ qual.box_location[qual.start_grid_dict[k]] = ((k + 2) * 1000) \div 2

\* qualifying() has returned a grid without a car whose adjusted time equals
\* that of a car that ran later; the car keeps the distance and the
\* box_location it was constructed with
C40_CarLeftOffGrid ==
    /\ qual.pc = "done"
    /\ \E c, d \in car_list :
          /\ c < d
          /\ C40_AdjTime(c) = C40_AdjTime(d)
          /\ \A k \in DOMAIN qual.start_grid_dict : qual.start_grid_dict[k] # c
          /\ Cardinality(DOMAIN qual.start_grid_dict) < NumCars
          /\ qual.distance[c] = 0
          /\ qual.box_location[c] = 1000


=============================================================================
